---- MODULE Spec2Model ----
(***************************************************************************)
(* Model of the fetch orchestration engine of parser-api:                  *)
(*   - BrowserPool            (src/lib/validation.mjs, lines 138-195)      *)
(*   - browse/performRequest  (src/lib/browse-optimized.mjs)               *)
(*   - getProxyConfig, isPageBlocked (src/lib/proxy-utils.mjs)             *)
(* Every async function is cut at its await points: what runs between two  *)
(* awaits is one atomic action (JavaScript runs to completion).            *)
(***************************************************************************)
EXTENDS Integers, Sequences, FiniteSets, TLC

(* ----------------------------- bounds ---------------------------------- *)

\* Number of browser instances that can exist at once; a launch beyond it
\* fails (puppeteer.launch rejects).
MaxInst == 4

\* Number of concurrently running callers of the pool.
NProcs == 2

\* Number of requests a page issues during one navigation.
MaxRequests == 2

(* ------------------------ program constants ---------------------------- *)

\* constructor(maxBrowsers = 3)
MaxBrowsers == 3

\* An empty array slot / an absent instance (JavaScript undefined).
NoInst == 0

Procs == 1..NProcs
InstIds == 1..MaxInst

(* ------------------------ JavaScript values ---------------------------- *)

\* undefined, for an optional string field
Undef == "<undefined>"

\* null, for an object reference
Null == [null |-> TRUE]

Truthy(s) == s # Undef /\ s # ""

(* ------------------------- JavaScript strings -------------------------- *)

\* s.includes(t)
Includes(s, t) ==
    \E i \in 1..(Len(s) - Len(t) + 1) : SubSeq(s, i, i + Len(t) - 1) = t

\* s.startsWith(t)
StartsWith(s, t) == Len(t) <= Len(s) /\ SubSeq(s, 1, Len(t)) = t

UpperChars == "ABCDEFGHIJKLMNOPQRSTUVWXYZ"
LowerChars == "abcdefghijklmnopqrstuvwxyz"

LowerChar(c) ==
    IF \E k \in 1..Len(UpperChars) : SubSeq(UpperChars, k, k) = c
    THEN LET k == CHOOSE k \in 1..Len(UpperChars) : SubSeq(UpperChars, k, k) = c
         IN SubSeq(LowerChars, k, k)
    ELSE c

RECURSIVE ToLowerCase(_)
\* s.toLowerCase()
ToLowerCase(s) ==
    IF Len(s) = 0 THEN ""
    ELSE IF Len(s) = 1 THEN LowerChar(s)
    ELSE LET half == Len(s) \div 2 IN
         ToLowerCase(SubSeq(s, 1, half)) \o ToLowerCase(SubSeq(s, half + 1, Len(s)))

DigitChars == "0123456789"

RECURSIVE NatToString(_)
NatToString(n) ==
    IF n < 10 THEN SubSeq(DigitChars, n + 1, n + 1)
    ELSE NatToString(n \div 10) \o SubSeq(DigitChars, (n % 10) + 1, (n % 10) + 1)

(* ------------------------- JavaScript numbers -------------------------- *)

\* A number-valued field holds a number, NaN or undefined.
Num(n) == [t |-> "num", v |-> n]
NaN == [t |-> "nan", v |-> 0]
UndefNum == [t |-> "undef", v |-> 0]

\* the truthiness of a number-valued field
TruthyNum(x) == x.t = "num" /\ x.v # 0

\* `${x}`
NumToString(x) ==
    IF x.t = "nan" THEN "NaN"
    ELSE IF x.t = "undef" THEN "undefined"
    ELSE IF x.v < 0 THEN "-" \o NatToString(0 - x.v)
    ELSE NatToString(x.v)

IsDigit(c) == \E k \in 1..Len(DigitChars) : SubSeq(DigitChars, k, k) = c
DigitValue(c) == (CHOOSE k \in 1..Len(DigitChars) : SubSeq(DigitChars, k, k) = c) - 1

RECURSIVE DigitsValue(_, _)
\* the value of the leading digits of s, after the digits read so far (acc)
DigitsValue(s, acc) ==
    IF Len(s) = 0 \/ ~IsDigit(SubSeq(s, 1, 1)) THEN acc
    ELSE DigitsValue(SubSeq(s, 2, Len(s)), 10 * acc + DigitValue(SubSeq(s, 1, 1)))

RECURSIVE TrimStart(_)
TrimStart(s) ==
    IF Len(s) > 0 /\ SubSeq(s, 1, 1) = " " THEN TrimStart(SubSeq(s, 2, Len(s))) ELSE s

\* parseInt(s, 10): leading white space, an optional sign, then the longest
\* prefix of digits; NaN when there is no digit (or s is undefined)
ParseInt(s) ==
    IF s = Undef THEN NaN
    ELSE LET t == TrimStart(s)
             neg == Len(t) > 0 /\ SubSeq(t, 1, 1) = "-"
             signed == Len(t) > 0 /\ SubSeq(t, 1, 1) \in {"-", "+"}
             d == IF signed THEN SubSeq(t, 2, Len(t)) ELSE t
         IN IF Len(d) = 0 \/ ~IsDigit(SubSeq(d, 1, 1)) THEN NaN
            ELSE Num(IF neg THEN 0 - DigitsValue(d, 0) ELSE DigitsValue(d, 0))

(* ------------------------- JavaScript arrays --------------------------- *)

\* arr[i] with a 0-based index: undefined outside the array
ArrGet(arr, i) == IF i + 1 \in 1..Len(arr) THEN arr[i + 1] ELSE NoInst

\* arr[i] = v with a 0-based index: an assignment past the end grows the
\* array and leaves holes
ArrSet(arr, i, v) ==
    [k \in 1..(IF i + 1 > Len(arr) THEN i + 1 ELSE Len(arr)) |->
        IF k = i + 1 THEN v
        ELSE IF k <= Len(arr) THEN arr[k] ELSE NoInst]

\* the elements of an array, holes skipped (Array.prototype.map skips holes)
ArrElems(arr) == {arr[k] : k \in 1..Len(arr)} \ {NoInst}

(* ------------------------------ state ---------------------------------- *)

VARIABLES
    browsers,       \* BrowserPool.browsers: array of instance ids (NoInst = hole)
    currentIndex,   \* BrowserPool.currentIndex (0-based)
    live,           \* the instances that exist: launched and not yet forgotten
    connected,      \* instances for which isConnected() is true
    closeCalled,    \* instances on which close() has been called
    proxyBound,     \* instances launched with a --proxy-server argument
    pc,             \* per caller: position in the async function it runs
    op,             \* per caller: the top-level operation it runs
    gbProxy,        \* getBrowser: the proxyConfig argument
    gbBrowser,      \* getBrowser: the local `browser` of the round-robin branch
    gbRet,          \* getBrowser: the instance it resolved with (NoInst: none)
    gbErr,          \* getBrowser: the error it rejected with (Null: none)
    rrCalls,        \* history: acquire(null) calls started since construction
    rrClean,        \* history: no disconnect, closeAll or failed launch so far
    env,            \* process.env: the PROXY_* variables
    req,            \* browse: params
    cfg,            \* browse: proxyConfig, as getProxyConfig returned it
    leg,            \* browse: the performRequest call site that is running
    at,             \* performRequest: its arguments and locals
    attempts,       \* history: the performRequest calls of this browse, in order
    result,         \* browse: what it returned (Null while it runs)
    call            \* a pure function called on its own: its name, arguments and value

poolVars == <<browsers, currentIndex>>
engineVars == <<live, connected, closeCalled, proxyBound>>
gbVars == <<gbProxy, gbBrowser, gbRet, gbErr>>
histVars == <<rrCalls, rrClean>>
fetchVars == <<env, req, cfg, leg, at, attempts, result>>
vars == <<poolVars, engineVars, pc, op, gbVars, histVars, fetchVars, call>>

\* Number of acquire(null) calls the history counts before it stops tracking.
MaxCalls == 7

(* ------------------------------ errors --------------------------------- *)

\* puppeteer.launch rejects
LaunchError == [message |-> "Failed to launch the browser process!"]

\* undefined.isConnected()
IsConnectedTypeError ==
    [message |-> "Cannot read properties of undefined (reading 'isConnected')"]

(* ---------------------------- BrowserPool ------------------------------ *)

\* if (this.browsers.length < this.maxBrowsers)
PoolHasRoomOff == Len(browsers) <= MaxBrowsers
PoolHasRoom == Len(browsers) < MaxBrowsers

\* this.currentIndex = (this.currentIndex + 1) % this.browsers.length
NextIndexStuck(cur, len) == cur
NextIndex(cur, len) == (cur + 1) % len

\* this.browsers[this.currentIndex] = newBrowser: the index is read after the
\* awaits, when the cursor has already been advanced
ReplaceIndex == currentIndex

\* this.browsers.push(browser)
PushBrowser(arr, b) == Append(arr, b)

\* puppeteer.launch(launchOptions) resolves with a new instance
CanLaunch == live # InstIds

\* The synchronous prefix of getBrowser(proxyConfig), up to its first await
\* or its return.
GetBrowserEnter(p, proxyConfig) ==
    /\ gbProxy' = [gbProxy EXCEPT ![p] = proxyConfig]
    /\ IF proxyConfig # Null
       THEN /\ pc' = [pc EXCEPT ![p] = "gb_proxy"]
            /\ gbBrowser' = [gbBrowser EXCEPT ![p] = NoInst]
            /\ gbRet' = [gbRet EXCEPT ![p] = NoInst]
            /\ gbErr' = [gbErr EXCEPT ![p] = Null]
            /\ UNCHANGED <<poolVars, closeCalled>>
       ELSE IF PoolHasRoom
       THEN /\ pc' = [pc EXCEPT ![p] = "gb_push"]
            /\ gbBrowser' = [gbBrowser EXCEPT ![p] = NoInst]
            /\ gbRet' = [gbRet EXCEPT ![p] = NoInst]
            /\ gbErr' = [gbErr EXCEPT ![p] = Null]
            /\ UNCHANGED <<poolVars, closeCalled>>
       ELSE LET browser == ArrGet(browsers, currentIndex) IN
            /\ currentIndex' = NextIndex(currentIndex, Len(browsers))
            /\ UNCHANGED browsers
            /\ IF browser = NoInst
               THEN \* browser.isConnected() on undefined throws
                    /\ pc' = [pc EXCEPT ![p] = "gb_done"]
                    /\ gbBrowser' = [gbBrowser EXCEPT ![p] = NoInst]
                    /\ gbRet' = [gbRet EXCEPT ![p] = NoInst]
                    /\ gbErr' = [gbErr EXCEPT ![p] = IsConnectedTypeError]
                    /\ UNCHANGED closeCalled
               ELSE IF browser \notin connected
               THEN \* await browser.close().catch(() => {})
                    /\ pc' = [pc EXCEPT ![p] = "gb_replace"]
                    /\ gbBrowser' = [gbBrowser EXCEPT ![p] = browser]
                    /\ gbRet' = [gbRet EXCEPT ![p] = NoInst]
                    /\ gbErr' = [gbErr EXCEPT ![p] = Null]
                    /\ closeCalled' = closeCalled \cup {browser}
               ELSE /\ pc' = [pc EXCEPT ![p] = "gb_done"]
                    /\ gbBrowser' = [gbBrowser EXCEPT ![p] = browser]
                    /\ gbRet' = [gbRet EXCEPT ![p] = browser]
                    /\ gbErr' = [gbErr EXCEPT ![p] = Null]
                    /\ UNCHANGED closeCalled

\* createBrowser(proxyConfig): puppeteer.launch settles; ok says how.
\* Gives the new instance's id, NoInst when the launch rejected.
CreateBrowser(ok) ==
    IF ok THEN CHOOSE b \in InstIds \ live : \A c \in InstIds \ live : b <= c
    ELSE NoInst

\* createBrowser ignores its proxyConfig
LaunchedUnbound(b, proxyConfig) ==
    /\ live' = IF b = NoInst THEN live ELSE live \cup {b}
    /\ connected' = IF b = NoInst THEN connected ELSE connected \cup {b}
    /\ proxyBound' = proxyBound

\* The engine side of a launch that settled with instance b (NoInst: rejected).
Launched(b, proxyConfig) ==
    /\ live' = IF b = NoInst THEN live ELSE live \cup {b}
    /\ connected' = IF b = NoInst THEN connected ELSE connected \cup {b}
    /\ proxyBound' = IF b = NoInst \/ proxyConfig = Null
                     THEN proxyBound ELSE proxyBound \cup {b}

\* getBrowser settles with b, or rejects with the launch error.
GetBrowserSettle(p, b) ==
    /\ pc' = [pc EXCEPT ![p] = "gb_done"]
    /\ gbRet' = [gbRet EXCEPT ![p] = b]
    /\ gbErr' = [gbErr EXCEPT ![p] = IF b = NoInst THEN LaunchError ELSE Null]
    /\ UNCHANGED <<gbProxy, gbBrowser>>

\* return await this.createBrowser(proxyConfig)
GetBrowserProxy(p) ==
    /\ pc[p] = "gb_proxy"
    /\ \E ok \in {TRUE, FALSE} :
        /\ ok => CanLaunch
        /\ LET b == CreateBrowser(ok) IN
            /\ Launched(b, gbProxy[p])
            /\ GetBrowserSettle(p, b)
            /\ rrClean' = rrClean
    /\ UNCHANGED <<poolVars, closeCalled, op, rrCalls, fetchVars, call>>

\* const browser = await this.createBrowser(); this.browsers.push(browser)
GetBrowserPush(p) ==
    /\ pc[p] = "gb_push"
    /\ \E ok \in {TRUE, FALSE} :
        /\ ok => CanLaunch
        /\ LET b == CreateBrowser(ok) IN
            /\ Launched(b, Null)
            /\ GetBrowserSettle(p, b)
            /\ browsers' = IF b = NoInst THEN browsers ELSE PushBrowser(browsers, b)
            /\ rrClean' = (rrClean /\ b # NoInst)
    /\ UNCHANGED <<currentIndex, closeCalled, op, rrCalls, fetchVars, call>>

\* const newBrowser = await this.createBrowser();
\* this.browsers[this.currentIndex] = newBrowser
GetBrowserReplace(p) ==
    /\ pc[p] = "gb_replace"
    /\ \E ok \in {TRUE, FALSE} :
        /\ ok => CanLaunch
        /\ LET b == CreateBrowser(ok) IN
            /\ Launched(b, Null)
            /\ GetBrowserSettle(p, b)
            /\ browsers' = IF b = NoInst THEN browsers
                           ELSE ArrSet(browsers, ReplaceIndex, b)
            /\ rrClean' = (rrClean /\ b # NoInst)
    /\ UNCHANGED <<currentIndex, closeCalled, op, rrCalls, fetchVars, call>>

\* The instances some caller still holds in a local variable.
Held == {gbBrowser[q] : q \in Procs} \cup {gbRet[q] : q \in Procs}
            \cup {at[q].browser : q \in Procs}

\* A proxy-bound instance that was closed, is disconnected and is referenced
\* by no caller can never be observed again: the model forgets it and its
\* identifier is free for a later launch.  Instances created for the pool are
\* never forgotten.
Forget ==
    LET dead == {b \in live : /\ b \in proxyBound
                              /\ b \in closeCalled
                              /\ b \notin connected
                              /\ b \notin ArrElems(browsers')
                              /\ b \notin Held'}
    IN /\ live' = live \ dead
       /\ closeCalled' = closeCalled \ dead
       /\ proxyBound' = proxyBound \ dead
       /\ UNCHANGED connected

\* closeAll(), up to its await: close() is called on every pooled instance;
\* a close that rejects is logged and may leave the instance connected.
CloseAllEnter(p) ==
    /\ pc' = [pc EXCEPT ![p] = "ca_wait"]
    /\ closeCalled' = closeCalled \cup ArrElems(browsers)
    /\ \E failed \in SUBSET (ArrElems(browsers) \cap connected) :
        connected' = connected \ (ArrElems(browsers) \ failed)
    /\ UNCHANGED <<poolVars, live, proxyBound, gbVars>>

\* closeAll without its last statement
CloseAllFinishKeepsPool(p) ==
    /\ pc[p] = "ca_wait"
    /\ browsers' = browsers
    /\ pc' = [pc EXCEPT ![p] = "idle"]
    /\ op' = [op EXCEPT ![p] = "none"]
    /\ UNCHANGED <<currentIndex, gbVars, histVars, fetchVars, call>>
    /\ Forget

\* closeAll() after Promise.all: this.browsers = []
CloseAllFinish(p) ==
    /\ pc[p] = "ca_wait"
    /\ browsers' = <<>>
    /\ pc' = [pc EXCEPT ![p] = "idle"]
    /\ op' = [op EXCEPT ![p] = "none"]
    /\ UNCHANGED <<currentIndex, gbVars, histVars, fetchVars, call>>
    /\ Forget

(* ------------------------------ proxy-utils ---------------------------- *)

MissingProxyError ==
    [message |-> "Proxy is enabled but host, port, username, or password are missing from both request and environment variables"]

HostPortRequiredError == [message |-> "Proxy host and port are required"]

\* type: requestProxy.type || 'hybrid'
ProxyType(requestProxy) ==
    IF Truthy(requestProxy.type) THEN requestProxy.type ELSE "hybrid"

\* b || a
OrElseSecondFirst(a, b) == IF Truthy(b) THEN b ELSE a

\* a || b on string fields
OrElse(a, b) == IF Truthy(a) THEN a ELSE b

\* BuildProxyConfig trying the environment before the request
BuildProxyConfigEnvFirst(requestProxy, e) ==
    IF Truthy(e.PROXY_HOST) /\ Truthy(e.PROXY_PORT)
    THEN [enabled |-> TRUE, type |-> ProxyType(requestProxy),
          host |-> e.PROXY_HOST, port |-> ParseInt(e.PROXY_PORT),
          username |-> OrElse(requestProxy.username, e.PROXY_USERNAME),
          password |-> OrElse(requestProxy.password, e.PROXY_PASSWORD)]
    ELSE IF requestProxy.enabled = "true" /\ Truthy(requestProxy.host)
       /\ TruthyNum(requestProxy.port)
    THEN [enabled |-> TRUE, type |-> ProxyType(requestProxy),
          host |-> requestProxy.host, port |-> requestProxy.port,
          username |-> requestProxy.username,
          password |-> requestProxy.password]
    ELSE Null

\* The config getProxyConfig builds before it validates it (Null: none).
\* requestProxy.enabled is "true", "false" or Undef.
BuildProxyConfig(requestProxy, e) ==
    IF requestProxy.enabled = "true" /\ Truthy(requestProxy.host)
       /\ TruthyNum(requestProxy.port)
    THEN [enabled |-> TRUE, type |-> ProxyType(requestProxy),
          host |-> requestProxy.host, port |-> requestProxy.port,
          username |-> requestProxy.username,
          password |-> requestProxy.password]
    ELSE IF Truthy(e.PROXY_HOST) /\ Truthy(e.PROXY_PORT)
    THEN [enabled |-> TRUE, type |-> ProxyType(requestProxy),
          host |-> e.PROXY_HOST, port |-> ParseInt(e.PROXY_PORT),
          username |-> OrElse(requestProxy.username, e.PROXY_USERNAME),
          password |-> OrElse(requestProxy.password, e.PROXY_PASSWORD)]
    ELSE Null

\* getProxyConfig without its first statement
getProxyConfigIgnoresDisabled(requestProxy, e) ==
    LET proxyConfig == BuildProxyConfig(requestProxy, e) IN
    IF proxyConfig = Null
    THEN IF requestProxy.enabled = "true"
         THEN [threw |-> MissingProxyError, value |-> Null]
         ELSE [threw |-> Null, value |-> Null]
    ELSE IF ~Truthy(proxyConfig.host) \/ ~TruthyNum(proxyConfig.port)
         THEN [threw |-> HostPortRequiredError, value |-> Null]
         ELSE [threw |-> Null, value |-> proxyConfig]

\* getProxyConfig without its throw statements
getProxyConfigLenient(requestProxy, e) ==
    IF requestProxy.enabled = "false"
    THEN [threw |-> Null, value |-> Null]
    ELSE LET proxyConfig == BuildProxyConfig(requestProxy, e) IN
         IF proxyConfig = Null \/ ~Truthy(proxyConfig.host)
            \/ ~TruthyNum(proxyConfig.port)
         THEN [threw |-> Null, value |-> Null]
         ELSE [threw |-> Null, value |-> proxyConfig]

\* getProxyConfig(requestProxy): [threw |-> error] or [threw |-> Null, value |-> config]
getProxyConfig(requestProxy, e) ==
    IF requestProxy.enabled = "false"
    THEN [threw |-> Null, value |-> Null]
    ELSE LET proxyConfig == BuildProxyConfig(requestProxy, e) IN
         IF proxyConfig = Null
         THEN IF requestProxy.enabled = "true"
              THEN [threw |-> MissingProxyError, value |-> Null]
              ELSE [threw |-> Null, value |-> Null]
         ELSE IF ~Truthy(proxyConfig.host) \/ ~TruthyNum(proxyConfig.port)
              THEN [threw |-> HostPortRequiredError, value |-> Null]
              ELSE [threw |-> Null, value |-> proxyConfig]

\* `${proxyConfig.host}:${proxyConfig.port}`, or 'none'
ProxyUsed(proxyConfig) ==
    IF proxyConfig = Null THEN "none"
    ELSE proxyConfig.host \o ":" \o NumToString(proxyConfig.port)

\* the status list without 429
BlockingStatusWithout429(status) == status \in {403, 503}

\* [403, 429, 503].includes(status)
BlockingStatus(status) == status \in {403, 429, 503}

blockingIndicators ==
    {"blocked", "access denied", "forbidden", "rate limit", "captcha",
     "cloudflare", "ddos protection", "security check", "bot detection"}

\* content.length < 500
ShortContent(content) == Len(content) < 500

\* isPageBlocked(response, page): response is Null or [status |-> n]; page is
\* [readable, title, content], readable FALSE when page.title() or
\* page.content() rejects.
isPageBlocked(response, page) ==
    IF response = Null THEN TRUE
    ELSE IF BlockingStatus(response.status) THEN TRUE
    ELSE IF ~page.readable THEN TRUE
    ELSE LET titleLower == ToLowerCase(page.title)
             contentLower == ToLowerCase(page.content)
         IN IF \E indicator \in blockingIndicators :
                  Includes(titleLower, indicator) \/ Includes(contentLower, indicator)
            THEN TRUE
            ELSE IF ShortContent(page.content)
                    /\ ~Includes(contentLower, "<!doctype")
                    /\ ~Includes(contentLower, "<html")
            THEN TRUE
            ELSE FALSE

\* createProxyErrorResponse(error, url, executionTime)
createProxyErrorResponse(error) ==
    LET errorMessage == OrElse(error.message, "Proxy error") IN
    [status |-> "error",
     reason |-> IF Includes(errorMessage, "PROXY_") THEN "proxy_authentication_failed"
                ELSE IF Includes(errorMessage, "timeout") THEN "proxy_timeout"
                ELSE IF Includes(errorMessage, "connection") THEN "proxy_connection_failed"
                ELSE "proxy_error",
     message |-> errorMessage,
     exec |-> "elapsed", proxy_used |-> Undef, network |-> Undef]

(* --------------------------- browse-optimized -------------------------- *)

\* error.message.toLowerCase() on an error without a message
ToLowerCaseTypeError ==
    [message |-> "Cannot read properties of undefined (reading 'toLowerCase')"]

\* getErrorReason(error); Undef when it throws (error.message is undefined)
getErrorReason(error) ==
    IF error.message = Undef THEN Undef
    ELSE LET message == ToLowerCase(error.message) IN
         IF Includes(message, "timeout") \/ Includes(message, "navigation timeout")
         THEN "timeout"
         ELSE IF Includes(message, "net::err_name_not_resolved") THEN "dns_error"
         ELSE IF Includes(message, "net::err_connection_refused") THEN "connection_refused"
         ELSE IF Includes(message, "net::err_ssl_version_or_cipher_mismatch") THEN "ssl_error"
         ELSE IF Includes(message, "invalid url") THEN "invalid_url"
         ELSE "unknown_error"

retryReasons == {"timeout", "connection_refused", "dns_error"}
retryMessages == {"blocked", "access denied", "forbidden", "rate limit", "captcha"}

\* shouldRetryWithProxy(result)
shouldRetryAlways(res) == res.status = "error"
shouldRetryWithProxy(res) ==
    IF res.status # "error" THEN FALSE
    ELSE IF res.reason \in retryReasons THEN TRUE
    ELSE \E retryMessage \in retryMessages :
            Includes(ToLowerCase(res.message), retryMessage)

\* shouldBlockRequest with the document rule ahead of the block list
shouldBlockRequestDocumentFirst(request, allowTypes, blockUrls) ==
    IF request.resourceType = "document"
    THEN [block |-> FALSE, reason |-> "document_allowed"]
    ELSE IF \E blockedUrl \in blockUrls : Includes(request.url, blockedUrl)
    THEN [block |-> TRUE, reason |-> "blocked_url"]
    ELSE IF request.resourceType = "image" /\ StartsWith(request.url, "data:image/")
    THEN [block |-> TRUE, reason |-> "data_uri_image"]
    ELSE IF request.resourceType = "font"
    THEN [block |-> TRUE, reason |-> "font_blocked"]
    ELSE IF allowTypes # {} /\ request.resourceType \notin allowTypes
    THEN [block |-> TRUE, reason |-> "not_in_allow_list"]
    ELSE [block |-> FALSE, reason |-> "allowed"]

\* shouldBlockRequest(request, allowTypes, blockUrls): request is
\* [resourceType, url]; the two arrays are read with includes, some and
\* length > 0 only, and are sets here.
shouldBlockRequest(request, allowTypes, blockUrls) ==
    LET url == request.url
        resourceType == request.resourceType
    IN IF \E blockedUrl \in blockUrls : Includes(url, blockedUrl)
       THEN [block |-> TRUE, reason |-> "blocked_url"]
       ELSE IF resourceType = "image" /\ StartsWith(url, "data:image/")
       THEN [block |-> TRUE, reason |-> "data_uri_image"]
       ELSE IF resourceType = "font"
       THEN [block |-> TRUE, reason |-> "font_blocked"]
       ELSE IF resourceType = "document"
       THEN [block |-> FALSE, reason |-> "document_allowed"]
       ELSE IF allowTypes # {} /\ resourceType \notin allowTypes
       THEN [block |-> TRUE, reason |-> "not_in_allow_list"]
       ELSE [block |-> FALSE, reason |-> "allowed"]

\* process.env without PROXY_* variables
NoEnv == [PROXY_HOST |-> Undef, PROXY_PORT |-> Undef,
          PROXY_USERNAME |-> Undef, PROXY_PASSWORD |-> Undef]

\* The network parameter of a request: enabled, and the two filter lists
\* (arrays as sets, their order does not matter to shouldBlockRequest).
Network(enabled, allow_types, block_urls) ==
    [enabled |-> enabled, allow_types |-> allow_types, block_urls |-> block_urls]

\* the schema's default, and monitoring without filters
NetworkOff == Network(FALSE, {}, {})

NetworkOn == Network(TRUE, {}, {})

\* no browse is running
NoRequest ==
    [url |-> Undef, proxy |-> Null, screenshot |-> FALSE, network |-> NetworkOff]

NoPage == [readable |-> FALSE, title |-> "", content |-> ""]

\* performRequest's arguments and locals when it is entered:
\*   page: "none" (null), "open", "closed", "close_failed"
\*   response, snap: what page.goto resolved with and the page it loaded
\*   ret, threw: the result it returns, or the error it throws
\*   networkRequests: the events the 'request' handler has pushed
\*   requests: the requests the page has issued while page.goto is
\*             pending, each with the number of times it was aborted and
\*             continued
NewAttempt(proxyConfig) ==
    [proxyConfig |-> proxyConfig, browser |-> NoInst, page |-> "none",
     authed |-> FALSE, intercept |-> FALSE, navigated |-> FALSE,
     response |-> Null, snap |-> NoPage, blockChecked |-> FALSE,
     shot |-> FALSE, ret |-> Null, threw |-> Null,
     networkRequests |-> <<>>, requests |-> <<>>]

NoAttempt == NewAttempt(Null)

(* What the automation engine can answer. *)

TimeoutError == [message |-> "Navigation timeout of 5000 ms exceeded"]
DnsError == [message |-> "net::ERR_NAME_NOT_RESOLVED at https://example.com/"]
ConnectionRefusedError ==
    [message |-> "net::ERR_CONNECTION_REFUSED at https://example.com/"]
SslError ==
    [message |-> "net::ERR_SSL_VERSION_OR_CIPHER_MISMATCH at https://example.com/"]
BlockedByClientError ==
    [message |-> "net::ERR_BLOCKED_BY_CLIENT at https://example.com/"]
TargetClosedError == [message |-> "Protocol error (Page.navigate): Target closed"]
\* a rejection with a value that has no message
NoMessageError == [message |-> Undef]

EngineErrors ==
    {TimeoutError, DnsError, ConnectionRefusedError, SslError,
     BlockedByClientError, TargetClosedError, NoMessageError}

\* throw new Error('Page appears to be blocked')
BlockedError == [message |-> "Page appears to be blocked"]

\* new URL(url) throws
InvalidUrlError == [message |-> "Invalid URL"]

NormalPage ==
    [readable |-> TRUE, title |-> "Example Domain",
     content |-> "<!doctype html><html><head><title>Example Domain</title></head><body><h1>Example</h1></body></html>"]
CaptchaPage ==
    [readable |-> TRUE, title |-> "Just a moment...",
     content |-> "<!DOCTYPE html><html><body>Please complete the CAPTCHA to continue</body></html>"]
UnreadablePage == [readable |-> FALSE, title |-> "", content |-> ""]

\* what page.goto resolves with, and the page it leaves loaded
Navigations ==
    {[response |-> [status |-> 200], snap |-> NormalPage],
     [response |-> [status |-> 403], snap |-> NormalPage],
     [response |-> [status |-> 429], snap |-> NormalPage],
     [response |-> [status |-> 200], snap |-> CaptchaPage],
     [response |-> [status |-> 200], snap |-> UnreadablePage],
     [response |-> Null, snap |-> NormalPage]}

(* new URL(url): the WHATWG parser accepts an absolute URL, that is a       *)
(* scheme, ':' and, for the special schemes, a non-empty host.              *)

SchemeChars == "abcdefghijklmnopqrstuvwxyz0123456789+-."
SpecialSchemes == {"http", "https", "ftp", "ws", "wss"}

IsSchemeChar(c) == \E k \in 1..Len(SchemeChars) : SubSeq(SchemeChars, k, k) = c

\* the length of the scheme of url, 0 when it has none
SchemeLength(url) ==
    LET colons == {i \in 1..Len(url) : SubSeq(url, i, i) = ":"} IN
    IF colons = {} THEN 0
    ELSE LET i == CHOOSE i \in colons : \A j \in colons : i <= j IN
         IF i > 1
            /\ \A k \in 1..(i - 1) : IsSchemeChar(LowerChar(SubSeq(url, k, k)))
            /\ ~IsDigit(SubSeq(url, 1, 1))
            /\ SubSeq(url, 1, 1) \notin {"+", "-", "."}
         THEN i - 1 ELSE 0

RECURSIVE SkipSlashes(_)
SkipSlashes(s) ==
    IF Len(s) > 0 /\ SubSeq(s, 1, 1) \in {"/", "\\"}
    THEN SkipSlashes(SubSeq(s, 2, Len(s))) ELSE s

\* new URL(url) does not throw
UrlParses(url) ==
    LET n == SchemeLength(url) IN
    /\ n > 0
    /\ ToLowerCase(SubSeq(url, 1, n)) \in SpecialSchemes
         => Len(SkipSlashes(SubSeq(url, n + 2, Len(url)))) > 0

(* The pure functions above, tabulated once over the values of the model. *)

\* every error a catch block of the model can receive
Errors ==
    EngineErrors \cup {LaunchError, IsConnectedTypeError, BlockedError,
                       InvalidUrlError, ToLowerCaseTypeError}

\* getErrorReason(error)
errorReasons == [error \in Errors |-> getErrorReason(error)]

\* isPageBlocked(response, page)
pageBlocked == [n \in Navigations |-> isPageBlocked(n.response, n.snap)]

\* The error result of a catch block: error.message || 'Unknown error',
\* getErrorReason(error); proxy_used as given (Undef: the field is absent).
ErrorResult(error, proxyUsed) ==
    [status |-> "error",
     reason |-> errorReasons[error],
     message |-> OrElse(error.message, "Unknown error"),
     exec |-> "elapsed", proxy_used |-> proxyUsed, network |-> Undef]

\* The ok result of performRequest.
OkResult(proxyUsed, networkRequests) ==
    [status |-> "ok", reason |-> Undef, message |-> Undef, exec |-> "elapsed",
     proxy_used |-> proxyUsed, network |-> networkRequests]

\* proxy_used of the results: 'none' or host:port of a request's or the
\* environment's proxy
ProxyUseds == {"none", "h:8080", "envhost:3128"}

\* every result performRequest can return
AttemptResults ==
    {OkResult(pu, <<>>) : pu \in ProxyUseds}
        \cup {ErrorResult(e, pu) : e \in {x \in Errors : errorReasons[x] # Undef},
                                   pu \in ProxyUseds}

\* shouldRetryWithProxy(result)
retries == [res \in AttemptResults |-> shouldRetryWithProxy(res)]

(* ------------------- the pool's interface, called directly ------------- *)

AllIdle == \A q \in Procs : pc[q] = "idle"

\* A proxy configuration, as getProxyConfig builds it.
PoolProxy ==
    [enabled |-> TRUE, type |-> "static", host |-> "h", port |-> Num(8080),
     username |-> Undef, password |-> Undef]

\* browserPool.getBrowser(proxyConfig) is called
AcquireStart(p, proxyConfig) ==
    /\ pc[p] = "idle"
    /\ op' = [op EXCEPT ![p] = "acquire"]
    /\ GetBrowserEnter(p, proxyConfig)
    /\ IF proxyConfig # Null
       THEN UNCHANGED histVars
       ELSE /\ rrClean' = (rrClean /\ rrCalls < MaxCalls)
            /\ rrCalls' = IF rrClean /\ rrCalls < MaxCalls THEN rrCalls + 1 ELSE 0
    /\ UNCHANGED <<live, connected, proxyBound, fetchVars, call>>

\* the caller of getBrowser takes its result
AcquireReturn(p) ==
    /\ pc[p] = "gb_done"
    /\ op[p] = "acquire"
    /\ pc' = [pc EXCEPT ![p] = "idle"]
    /\ op' = [op EXCEPT ![p] = "none"]
    /\ gbProxy' = [gbProxy EXCEPT ![p] = Null]
    /\ gbBrowser' = [gbBrowser EXCEPT ![p] = NoInst]
    /\ gbRet' = [gbRet EXCEPT ![p] = NoInst]
    /\ gbErr' = [gbErr EXCEPT ![p] = Null]
    /\ UNCHANGED <<poolVars, histVars, fetchVars, call>>
    /\ Forget

\* browserPool.closeAll() is called
CloseAllStart(p) ==
    /\ pc[p] = "idle"
    /\ op' = [op EXCEPT ![p] = "closeAll"]
    /\ CloseAllEnter(p)
    /\ rrClean' = FALSE
    /\ rrCalls' = 0
    /\ UNCHANGED <<fetchVars, call>>

\* A pooled instance loses its connection (its process dies).
Disconnect(b) ==
    /\ b \in ArrElems(browsers) \cap connected
    /\ connected' = connected \ {b}
    /\ rrClean' = FALSE
    /\ rrCalls' = 0
    /\ UNCHANGED <<poolVars, live, closeCalled, proxyBound, pc, op, gbVars, fetchVars, call>>

(* The requests of the model. *)

RequestProxy(enabled, type, host, port, username, password) ==
    [enabled |-> enabled, type |-> type, host |-> host, port |-> port,
     username |-> username, password |-> password]

ProxyDisabled == RequestProxy("false", "hybrid", Undef, UndefNum, Undef, Undef)
ProxyStatic == RequestProxy("true", "static", "h", Num(8080), "user", "secret")
ProxyHybrid == RequestProxy("true", "hybrid", "h", Num(8080), "user", "secret")
ProxyHybridNoAuth == RequestProxy("true", "hybrid", "h", Num(8080), Undef, Undef)
ProxyFromEnv == RequestProxy("true", "static", Undef, UndefNum, Undef, Undef)
ProxyHybridHostOnly == RequestProxy("true", "hybrid", "h", UndefNum, Undef, Undef)

Request(url, proxy, screenshot, network) ==
    [url |-> url, proxy |-> proxy, screenshot |-> screenshot, network |-> network]

Requests ==
    {Request("https://example.com/", ProxyDisabled, FALSE, NetworkOff),
     Request("https://example.com/", ProxyDisabled, TRUE, NetworkOn),
     Request("https://example.com/", ProxyStatic, FALSE, NetworkOff),
     Request("https://example.com/", ProxyHybrid, FALSE, NetworkOff),
     Request("https://example.com/", ProxyHybridNoAuth, TRUE, NetworkOff),
     Request("https://example.com/", ProxyFromEnv, FALSE, NetworkOff),
     Request("https://example.com/", ProxyHybridHostOnly, FALSE, NetworkOff),
     Request("not a url", ProxyHybrid, FALSE, NetworkOff)}

\* The requests of the runs that watch the page's own requests: each way
\* of filling network.enabled, allow_types and block_urls, without a proxy,
\* and monitoring in front of a hybrid proxy.
NetRequests ==
    {Request("https://example.com/", ProxyDisabled, FALSE,
             Network(FALSE, {}, {"https://x/ads"})),
     Request("https://example.com/", ProxyDisabled, FALSE, NetworkOn),
     Request("https://example.com/", ProxyDisabled, FALSE,
             Network(TRUE, {"document", "script"}, {})),
     Request("https://example.com/", ProxyDisabled, FALSE,
             Network(TRUE, {}, {"https://x/ads"})),
     Request("https://example.com/", ProxyDisabled, TRUE,
             Network(TRUE, {"script"}, {"https://x/ads", "https://x/a.woff"})),
     Request("https://example.com/", ProxyHybrid, FALSE,
             Network(TRUE, {"document"}, {}))}

\* The requests of the runs over the url parameter: unparseable, relative,
\* other schemes, http and https.
UrlRequests ==
    {Request("not a url", ProxyDisabled, FALSE, NetworkOff),
     Request("/relative/path", ProxyHybrid, FALSE, NetworkOff),
     Request("ftp://h/file", ProxyHybrid, FALSE, NetworkOff),
     Request("file:///etc/passwd", ProxyDisabled, TRUE, NetworkOn),
     Request("http://example.com/", ProxyDisabled, FALSE, NetworkOff),
     Request("https://example.com/", ProxyDisabled, FALSE, NetworkOff)}

\* what a page asks for while it loads: request.resourceType(), request.url()
PageRequests ==
    {[resourceType |-> "document", url |-> "https://x/"],
     [resourceType |-> "image", url |-> "https://x/ads/i.png"],
     [resourceType |-> "font", url |-> "https://x/a.woff"]}

\* new URL(url) does not throw
urlParses ==
    [url \in {r.url : r \in Requests \cup NetRequests \cup UrlRequests}
        |-> UrlParses(url)]

ProxyEnv == [PROXY_HOST |-> "envhost", PROXY_PORT |-> "3128",
             PROXY_USERNAME |-> Undef, PROXY_PASSWORD |-> Undef]

Envs == {NoEnv, ProxyEnv}

(* ---------------------------- performRequest --------------------------- *)

\* performRequest(url, params, proxyConfig, startTime) is called: it runs up
\* to the await of browserPool.getBrowser(proxyConfig).
PerformRequestEnter(p, legName, proxyConfig) ==
    /\ leg' = [leg EXCEPT ![p] = legName]
    /\ at' = [at EXCEPT ![p] = NewAttempt(proxyConfig)]
    /\ GetBrowserEnter(p, proxyConfig)

\* Where the finally block goes next: page.close(), then browser.close() for a
\* proxy browser, then the function settles.
\* finally closes whatever browser the attempt used, pooled or not
AfterPageClosesAnyBrowser(a) ==
    IF a.browser # NoInst THEN "pr_closeBrowser" ELSE "pr_settle"

\* page.close() without .catch: a close that rejects ends the finally block
AfterPageStopsOnFailure(a) ==
    IF a.browser # NoInst /\ a.proxyConfig # Null /\ a.page # "close_failed"
    THEN "pr_closeBrowser"
    ELSE "pr_settle"

\* finally forgets the proxy browser
AfterPageSkipsBrowser(a) == "pr_settle"
AfterPage(a) ==
    IF a.browser # NoInst /\ a.proxyConfig # Null THEN "pr_closeBrowser"
    ELSE "pr_settle"

Finally(a) == IF a.page = "open" THEN "pr_closePage" ELSE AfterPage(a)

\* The catch block of performRequest, then the finally block: the error
\* result is built; getErrorReason throws on an error without a message.
Catch(p, a, error) ==
    LET c == IF errorReasons[error] = Undef
             THEN [a EXCEPT !.threw = ToLowerCaseTypeError, !.snap = NoPage,
                            !.networkRequests = <<>>, !.requests = <<>>]
             ELSE [a EXCEPT !.ret = ErrorResult(error, ProxyUsed(a.proxyConfig)),
                            !.snap = NoPage, !.networkRequests = <<>>,
                            !.requests = <<>>]
    IN /\ at' = [at EXCEPT ![p] = c]
       /\ pc' = [pc EXCEPT ![p] = Finally(c)]

\* The try block goes on: at' and the next await.
Goes(p, a, next) ==
    /\ at' = [at EXCEPT ![p] = a]
    /\ pc' = [pc EXCEPT ![p] = next]

prFrame == <<poolVars, engineVars, op, gbVars, histVars, env, call, req, cfg, leg,
             attempts, result>>

\* the authentication keyed on the presence of a proxy alone
HasCredentialsAnyProxy(proxyConfig) == proxyConfig # Null

\* proxyConfig && proxyConfig.username && proxyConfig.password
HasCredentials(proxyConfig) ==
    /\ proxyConfig # Null
    /\ Truthy(proxyConfig.username)
    /\ Truthy(proxyConfig.password)

\* the block check keyed on the presence of a proxy alone
ChecksBlockingAnyProxy(proxyConfig) == proxyConfig # Null

\* proxyConfig && proxyConfig.type === 'hybrid'
ChecksBlocking(proxyConfig) == proxyConfig # Null /\ proxyConfig.type = "hybrid"

\* browser = await browserPool.getBrowser(proxyConfig); browser.newPage()
PRGotBrowser(p) ==
    /\ pc[p] = "gb_done"
    /\ op[p] = "browse"
    /\ IF gbErr[p] # Null
       THEN Catch(p, at[p], gbErr[p])
       ELSE Goes(p, [at[p] EXCEPT !.browser = gbRet[p]], "pr_newPage")
    /\ UNCHANGED prFrame

\* page = await browser.newPage()
PRNewPage(p) ==
    /\ pc[p] = "pr_newPage"
    /\ \/ \E e \in EngineErrors : Catch(p, at[p], e)
       \/ Goes(p, [at[p] EXCEPT !.page = "open"],
               IF HasCredentials(at[p].proxyConfig) THEN "pr_auth" ELSE "pr_viewport")
    /\ UNCHANGED prFrame

\* await page.authenticate({username, password})
PRAuthenticate(p) ==
    /\ pc[p] = "pr_auth"
    /\ \/ \E e \in EngineErrors : Catch(p, at[p], e)
       \/ Goes(p, [at[p] EXCEPT !.authed = TRUE], "pr_viewport")
    /\ UNCHANGED prFrame

\* await page.setViewport(...)
PRSetViewport(p) ==
    /\ pc[p] = "pr_viewport"
    /\ \/ \E e \in EngineErrors : Catch(p, at[p], e)
       \/ Goes(p, at[p], "pr_userAgent")
    /\ UNCHANGED prFrame

\* performRequest going from setUserAgent to page.goto, interception not set
PRSetUserAgentSkipsInterception(p) ==
    /\ pc[p] = "pr_userAgent"
    /\ \/ \E e \in EngineErrors : Catch(p, at[p], e)
       \/ Goes(p, at[p], "pr_goto")
    /\ UNCHANGED prFrame

\* await page.setUserAgent(...); if (network.enabled) ...
PRSetUserAgent(p) ==
    /\ pc[p] = "pr_userAgent"
    /\ \/ \E e \in EngineErrors : Catch(p, at[p], e)
       \/ Goes(p, at[p], IF req[p].network.enabled THEN "pr_intercept" ELSE "pr_goto")
    /\ UNCHANGED prFrame

\* await page.setRequestInterception(true); page.on('request', ...)
PRSetInterception(p) ==
    /\ pc[p] = "pr_intercept"
    /\ \/ \E e \in EngineErrors : Catch(p, at[p], e)
       \/ Goes(p, [at[p] EXCEPT !.intercept = TRUE], "pr_goto")
    /\ UNCHANGED prFrame

\* the handler without its else branch: a blocked request is aborted and
\* then continued
OnRequestContinuesAfterAbort(request, network, networkRequests) ==
    LET shouldBlock ==
            shouldBlockRequest(request, network.allow_types, network.block_urls)
    IN [aborted |-> IF shouldBlock.block THEN 1 ELSE 0,
        continued |-> 1,
        networkRequests |->
            Append(networkRequests,
                   [type |-> request.resourceType, url |-> request.url,
                    blocked |-> shouldBlock.block,
                    reason |-> shouldBlock.reason])]

\* the 'request' handler of performRequest, called with the request and the
\* events pushed so far: how often it aborted and continued the request,
\* and the events afterwards
OnRequest(request, network, networkRequests) ==
    LET shouldBlock ==
            shouldBlockRequest(request, network.allow_types, network.block_urls)
    IN [aborted |-> IF shouldBlock.block THEN 1 ELSE 0,
        continued |-> IF shouldBlock.block THEN 0 ELSE 1,
        networkRequests |->
            Append(networkRequests,
                   [type |-> request.resourceType, url |-> request.url,
                    blocked |-> shouldBlock.block,
                    reason |-> shouldBlock.reason])]

\* a page without a 'request' handler: the request is neither aborted nor
\* continued by the program, and nothing is pushed
NotIntercepted(networkRequests) ==
    [aborted |-> 0, continued |-> 0, networkRequests |-> networkRequests]

\* While page.goto is pending the page issues a request; the handler runs
\* when one was installed.
PRRequest(p, request) ==
    /\ pc[p] = "pr_goto"
    /\ Len(at[p].requests) < MaxRequests
    /\ LET h == IF at[p].intercept
                THEN OnRequest(request, req[p].network, at[p].networkRequests)
                ELSE NotIntercepted(at[p].networkRequests)
       IN at' = [at EXCEPT ![p].networkRequests = h.networkRequests,
                           ![p].requests =
                               Append(@, [request |-> request,
                                          aborted |-> h.aborted,
                                          continued |-> h.continued])]
    /\ UNCHANGED <<pc, prFrame>>

\* after the navigation, or after the block check: the screenshot if
\* requested, else the collection of metrics, title and html
AfterNavigation(p) == IF req[p].screenshot THEN "pr_screenshot" ELSE "pr_collect"

\* page.goto without its timeout: a navigation that never settles
PRGotoWithoutTimeout(p) ==
    /\ pc[p] = "pr_goto"
    /\ UNCHANGED <<at, pc>>
    /\ UNCHANGED prFrame

\* const response = await page.goto(url, {waitUntil, timeout})
PRGoto(p) ==
    /\ pc[p] = "pr_goto"
    /\ \/ \E e \in EngineErrors : Catch(p, at[p], e)
       \/ \E n \in Navigations :
            Goes(p, [at[p] EXCEPT !.navigated = TRUE, !.response = n.response,
                                  !.snap = n.snap, !.requests = <<>>],
                 IF ChecksBlocking(at[p].proxyConfig) THEN "pr_blockCheck"
                 ELSE AfterNavigation(p))
    /\ UNCHANGED prFrame

\* if (... && await isPageBlocked(response, page)) throw new Error(...)
PRBlockCheck(p) ==
    /\ pc[p] = "pr_blockCheck"
    /\ LET a == [at[p] EXCEPT !.blockChecked = TRUE] IN
       IF pageBlocked[[response |-> a.response, snap |-> a.snap]]
       THEN Catch(p, a, BlockedError)
       ELSE Goes(p, a, AfterNavigation(p))
    /\ UNCHANGED prFrame

\* screenshotData = await page.screenshot(...)
PRScreenshot(p) ==
    /\ pc[p] = "pr_screenshot"
    /\ \/ \E e \in EngineErrors : Catch(p, at[p], e)
       \/ Goes(p, [at[p] EXCEPT !.shot = TRUE], "pr_collect")
    /\ UNCHANGED prFrame

\* await Promise.all([page.metrics(), page.title(), page.content()]), then
\* the ok result is returned and the finally block runs
PRCollect(p) ==
    /\ pc[p] = "pr_collect"
    /\ \/ \E e \in EngineErrors : Catch(p, at[p], e)
       \/ /\ at[p].snap.readable
          /\ LET a == [at[p] EXCEPT !.ret = OkResult(ProxyUsed(at[p].proxyConfig),
                                                     at[p].networkRequests),
                                    !.snap = NoPage]
             IN Goes(p, a, Finally(a))
    /\ UNCHANGED prFrame

\* finally: await page.close().catch(log); a close that rejects is logged
PRClosePage(p) ==
    /\ pc[p] = "pr_closePage"
    /\ \E closed \in {TRUE, FALSE} :
        LET a == [at[p] EXCEPT !.page = IF closed THEN "closed" ELSE "close_failed"]
        IN Goes(p, a, AfterPage(a))
    /\ UNCHANGED prFrame

\* finally: if (browser && proxyConfig) await browser.close().catch(log)
PRCloseBrowser(p) ==
    /\ pc[p] = "pr_closeBrowser"
    /\ closeCalled' = closeCalled \cup {at[p].browser}
    /\ \E closed \in {TRUE, FALSE} :
        connected' = IF closed THEN connected \ {at[p].browser} ELSE connected
    /\ pc' = [pc EXCEPT ![p] = "pr_settle"]
    /\ UNCHANGED <<poolVars, live, proxyBound, op, gbVars, histVars, fetchVars, call>>

(* -------------------------------- browse ------------------------------- *)

\* browse without its outer catch block: the error escapes
OuterCatchRethrows(error) ==
    [status |-> "threw", reason |-> Undef, message |-> error.message,
     exec |-> Undef, proxy_used |-> Undef, network |-> Undef]

\* The outer catch block of browse.  Its result carries no proxy_used; when
\* getErrorReason throws in it, browse itself rejects.
OuterCatch(error) ==
    IF errorReasons[error] = Undef
    THEN [status |-> "threw", reason |-> Undef,
          message |-> ToLowerCaseTypeError.message, exec |-> Undef,
          proxy_used |-> Undef, network |-> Undef]
    ELSE ErrorResult(error, Undef)

\* browse returns res
BrowseSettle(p, res) ==
    /\ result' = [result EXCEPT ![p] = res]
    /\ pc' = [pc EXCEPT ![p] = "br_done"]

\* browse treating every proxy as hybrid
FirstLegAlwaysDirect(proxyConfig) == IF proxyConfig # Null THEN "direct" ELSE "plain"

\* The call site of performRequest that browse reaches first.
FirstLeg(proxyConfig) ==
    IF proxyConfig # Null /\ proxyConfig.type = "static" THEN "static"
    ELSE IF proxyConfig # Null /\ proxyConfig.type = "hybrid" THEN "direct"
    ELSE "plain"

\* The proxyConfig argument of each call site of performRequest.
LegProxy(legName, proxyConfig) ==
    IF legName \in {"direct", "plain"} THEN Null ELSE proxyConfig

\* browse(params) is called: new URL(url), getProxyConfig(proxy), then the
\* first performRequest up to its first await.
BrowseStart(p, r) ==
    /\ pc[p] = "idle"
    /\ op' = [op EXCEPT ![p] = "browse"]
    /\ req' = [req EXCEPT ![p] = r]
    /\ attempts' = [attempts EXCEPT ![p] = <<>>]
    /\ IF ~urlParses[r.url]
       THEN /\ BrowseSettle(p, OuterCatch(InvalidUrlError))
            /\ UNCHANGED <<cfg, leg, at, poolVars, closeCalled, gbVars>>
       ELSE LET got == getProxyConfig(r.proxy, env) IN
            IF got.threw # Null
            THEN /\ BrowseSettle(p, createProxyErrorResponse(got.threw))
                 /\ UNCHANGED <<cfg, leg, at, poolVars, closeCalled, gbVars>>
            ELSE /\ cfg' = [cfg EXCEPT ![p] = got.value]
                 /\ PerformRequestEnter(p, FirstLeg(got.value),
                                        LegProxy(FirstLeg(got.value), got.value))
                 /\ UNCHANGED result
    /\ UNCHANGED <<live, connected, proxyBound, histVars, env, call>>

\* browse without the catch block of its hybrid branch: what the direct
\* attempt throws reaches the outer catch block
NextLegWithoutFallback(legName, a) ==
    IF a.threw # Null THEN "catch"
    ELSE IF legName = "direct" /\ a.ret.status = "error" /\ retries[a.ret]
    THEN "retry"
    ELSE "return"

\* The call site browse goes to when the performRequest of call site legName
\* settled with a (a.threw: it threw); "return": browse returns a.ret,
\* "catch": the outer catch block takes a.threw.
\*   line 60: result.status === 'error' && shouldRetryWithProxy(result)
\*   line 66: catch (error) around the direct attempt and its retry
NextLeg(legName, a) ==
    IF legName = "direct"
    THEN IF a.threw # Null THEN "fallback"
         ELSE IF a.ret.status = "error" /\ retries[a.ret] THEN "retry"
         ELSE "return"
    ELSE IF legName = "retry"
    THEN IF a.threw # Null THEN "fallback" ELSE "return"
    ELSE IF a.threw # Null THEN "catch" ELSE "return"

\* history: the call site of an attempt, whether it was proxy-bound and
\* whether it got an instance
Summary(legName, a) ==
    [leg |-> legName, bound |-> a.proxyConfig # Null, launched |-> a.browser # NoInst]

\* performRequest settles and browse goes on with what it gave
BrowseAfterAttempt(p) ==
    /\ pc[p] = "pr_settle"
    /\ attempts' = [attempts EXCEPT ![p] = Append(@, Summary(leg[p], at[p]))]
    /\ LET next == NextLeg(leg[p], at[p]) IN
       IF next = "return"
       THEN /\ BrowseSettle(p, at[p].ret)
            /\ UNCHANGED <<leg, at, poolVars, closeCalled, gbVars>>
       ELSE IF next = "catch"
       THEN /\ BrowseSettle(p, OuterCatch(at[p].threw))
            /\ UNCHANGED <<leg, at, poolVars, closeCalled, gbVars>>
       ELSE /\ PerformRequestEnter(p, next, LegProxy(next, cfg[p]))
            /\ UNCHANGED result
    /\ UNCHANGED <<live, connected, proxyBound, op, histVars, env, call, req, cfg>>

\* the caller of browse takes the result
BrowseReturn(p) ==
    /\ pc[p] = "br_done"
    /\ pc' = [pc EXCEPT ![p] = "idle"]
    /\ op' = [op EXCEPT ![p] = "none"]
    /\ req' = [req EXCEPT ![p] = NoRequest]
    /\ cfg' = [cfg EXCEPT ![p] = Null]
    /\ leg' = [leg EXCEPT ![p] = "none"]
    /\ at' = [at EXCEPT ![p] = NoAttempt]
    /\ attempts' = [attempts EXCEPT ![p] = <<>>]
    /\ result' = [result EXCEPT ![p] = Null]
    /\ gbProxy' = [gbProxy EXCEPT ![p] = Null]
    /\ gbBrowser' = [gbBrowser EXCEPT ![p] = NoInst]
    /\ gbRet' = [gbRet EXCEPT ![p] = NoInst]
    /\ gbErr' = [gbErr EXCEPT ![p] = Null]
    /\ UNCHANGED <<poolVars, histVars, env, call>>
    /\ Forget

(* ---------------------------- specifications --------------------------- *)


\* new BrowserPool(): no instance, cursor 0; nothing is running
InitState ==
    /\ browsers = <<>>
    /\ currentIndex = 0
    /\ live = {}
    /\ connected = {}
    /\ closeCalled = {}
    /\ proxyBound = {}
    /\ pc = [p \in Procs |-> "idle"]
    /\ op = [p \in Procs |-> "none"]
    /\ gbProxy = [p \in Procs |-> Null]
    /\ gbBrowser = [p \in Procs |-> NoInst]
    /\ gbRet = [p \in Procs |-> NoInst]
    /\ gbErr = [p \in Procs |-> Null]
    /\ rrCalls = 0
    /\ rrClean = TRUE
    /\ env \in Envs
    /\ req = [p \in Procs |-> NoRequest]
    /\ cfg = [p \in Procs |-> Null]
    /\ leg = [p \in Procs |-> "none"]
    /\ at = [p \in Procs |-> NoAttempt]
    /\ attempts = [p \in Procs |-> <<>>]
    /\ result = [p \in Procs |-> Null]

\* no pure function is called on its own
NoCall == [fn |-> "none", args |-> Null, done |-> FALSE, ret |-> Null]

Init == InitState /\ call = NoCall

\* The pool's methods called one after another by one caller: each call
\* completes before the next starts, instances may disconnect between calls.
SeqNext ==
    \/ AcquireStart(1, Null)
    \/ AcquireStart(1, PoolProxy)
    \/ CloseAllStart(1)
    \/ GetBrowserProxy(1)
    \/ GetBrowserPush(1)
    \/ GetBrowserReplace(1)
    \/ AcquireReturn(1)
    \/ CloseAllFinish(1)
    \/ \E b \in InstIds : AllIdle /\ Disconnect(b)

SpecSeq == Init /\ [][SeqNext]_vars

\* The pool's methods called by concurrent callers, interleaving at awaits.
PoolNext ==
    \/ \E p \in Procs :
        \/ AcquireStart(p, Null)
        \/ AcquireStart(p, PoolProxy)
        \/ CloseAllStart(p)
        \/ GetBrowserProxy(p)
        \/ GetBrowserPush(p)
        \/ GetBrowserReplace(p)
        \/ AcquireReturn(p)
        \/ CloseAllFinish(p)
    \/ \E b \in InstIds : Disconnect(b)

SpecPool == Init /\ [][PoolNext]_vars

\* Requests served one after another by browse, on one pool whose instances
\* stay connected (so getBrowser never takes its replacement branch).
Next ==
    \/ \E r \in Requests : BrowseStart(1, r)
    \/ GetBrowserProxy(1)
    \/ GetBrowserPush(1)
    \/ PRGotBrowser(1)
    \/ PRNewPage(1)
    \/ PRAuthenticate(1)
    \/ PRSetViewport(1)
    \/ PRSetUserAgent(1)
    \/ PRSetInterception(1)
    \/ PRGoto(1)
    \/ PRBlockCheck(1)
    \/ PRScreenshot(1)
    \/ PRCollect(1)
    \/ PRClosePage(1)
    \/ PRCloseBrowser(1)
    \/ BrowseAfterAttempt(1)
    \/ BrowseReturn(1)

Spec == Init /\ [][Next]_vars

\* no request of NetRequests or UrlRequests reads process.env
NetInit == InitState /\ call = NoCall /\ env = NoEnv

\* One browse at a time over UrlRequests.
UrlNext ==
    \/ \E r \in UrlRequests : BrowseStart(1, r)
    \/ GetBrowserProxy(1)
    \/ GetBrowserPush(1)
    \/ PRGotBrowser(1)
    \/ PRNewPage(1)
    \/ PRAuthenticate(1)
    \/ PRSetViewport(1)
    \/ PRSetUserAgent(1)
    \/ PRSetInterception(1)
    \/ PRGoto(1)
    \/ PRBlockCheck(1)
    \/ PRScreenshot(1)
    \/ PRCollect(1)
    \/ PRClosePage(1)
    \/ PRCloseBrowser(1)
    \/ BrowseAfterAttempt(1)
    \/ BrowseReturn(1)

SpecUrl == NetInit /\ [][UrlNext]_vars

\* One browse at a time over NetRequests, the page issuing up to
\* MaxRequests requests during each navigation.
NetNext ==
    \/ \E r \in NetRequests : BrowseStart(1, r)
    \/ GetBrowserProxy(1)
    \/ GetBrowserPush(1)
    \/ PRGotBrowser(1)
    \/ PRNewPage(1)
    \/ PRAuthenticate(1)
    \/ PRSetViewport(1)
    \/ PRSetUserAgent(1)
    \/ PRSetInterception(1)
    \/ \E q \in PageRequests : PRRequest(1, q)
    \/ PRGoto(1)
    \/ PRBlockCheck(1)
    \/ PRScreenshot(1)
    \/ PRCollect(1)
    \/ PRClosePage(1)
    \/ PRCloseBrowser(1)
    \/ BrowseAfterAttempt(1)
    \/ BrowseReturn(1)

SpecNet == NetInit /\ [][NetNext]_vars


(* shouldBlockRequest called on its own, on every combination of a request,  *)
(* an allow list and a block list.                                           *)

\* network.allow_types: the resource types of the Joi schema that the request
\* kinds below can have
ResourceTypes == {"document", "image", "font", "script"}

RequestUrls ==
    {"https://x/", "https://x/a.woff", "https://x/ads/i.png",
     "data:image/png;base64,AAAA"}

\* network.block_urls
BlockLists == {{}, {"ads"}, {"https://x/"}, {"ads", "woff"}}

FilterInputs ==
    [request : [resourceType : ResourceTypes, url : RequestUrls],
     allowTypes : SUBSET {"document", "script", "font"},
     blockUrls : BlockLists]

FilterInit ==
    /\ InitState
    /\ call \in {[fn |-> "shouldBlockRequest", args |-> a, done |-> FALSE,
                  ret |-> Null] : a \in FilterInputs}

\* shouldBlockRequest(request, network.allow_types, network.block_urls)
ApplyShouldBlockRequest ==
    /\ call.fn = "shouldBlockRequest"
    /\ ~call.done
    /\ call' = [call EXCEPT !.done = TRUE,
                            !.ret = shouldBlockRequest(call.args.request,
                                                       call.args.allowTypes,
                                                       call.args.blockUrls)]
    /\ UNCHANGED <<poolVars, engineVars, pc, op, gbVars, histVars, fetchVars>>

FilterNext == ApplyShouldBlockRequest

SpecFilter == FilterInit /\ [][FilterNext]_vars

(* getProxyConfig called on its own, on every combination of a request's     *)
(* proxy parameter and an environment.                                       *)

\* the proxy parameter: every field given or not (port as the schema allows)
RequestProxies ==
    [enabled : {"true", "false", Undef}, type : {Undef, "static", "hybrid"},
     host : {Undef, "h"}, port : {UndefNum, Num(1)},
     username : {Undef, "user"}, password : {Undef, "secret"}]

\* process.env: each PROXY_* variable set or not, the port also to a text
\* that is no number and to a number that is no port
ProxyEnvs ==
    [PROXY_HOST : {Undef, "envhost"},
     PROXY_PORT : {Undef, "3128", "abc", "70000"},
     PROXY_USERNAME : {Undef, "envuser"}, PROXY_PASSWORD : {Undef, "envpass"}]

ResolveInit ==
    /\ InitState
    /\ env = NoEnv
    /\ call \in {[fn |-> "getProxyConfig", args |-> a, done |-> FALSE,
                  ret |-> Null] :
                a \in [requestProxy : RequestProxies, env : ProxyEnvs]}

\* getProxyConfig(proxy) under the environment of the call
ApplyGetProxyConfig ==
    /\ call.fn = "getProxyConfig"
    /\ ~call.done
    /\ call' = [call EXCEPT !.done = TRUE,
                            !.ret = getProxyConfig(call.args.requestProxy,
                                                   call.args.env)]
    /\ UNCHANGED <<poolVars, engineVars, pc, op, gbVars, histVars, fetchVars>>

SpecResolve == ResolveInit /\ [][ApplyGetProxyConfig]_vars

(* isPageBlocked called on its own, on every combination of a response and   *)
(* a loaded page.                                                            *)

RECURSIVE Repeat(_, _)
\* s.repeat(n)
Repeat(s, n) == IF n = 0 THEN "" ELSE s \o Repeat(s, n - 1)

\* what page.goto resolved with: nothing, or a response with this status
Responses == {Null} \cup {[status |-> n] : n \in {200, 403, 404, 429, 500, 503}}

\* the pages page.title() and page.content() are read from
LoadedPages ==
    {NormalPage, CaptchaPage, UnreadablePage,
     \* 560 characters of text without a tag
     [readable |-> TRUE, title |-> "Notes",
      content |-> Repeat("plain text without any tag. ", 20)],
     \* an indicator in the title only
     [readable |-> TRUE, title |-> "Access Denied",
      content |-> NormalPage.content],
     \* short, without a tag
     [readable |-> TRUE, title |-> "", content |-> "ok"],
     \* short, inside an html tag
     [readable |-> TRUE, title |-> "", content |-> "<HTML><body>ok</body></HTML>"],
     \* more than 500 characters inside an html tag, naming Cloudflare
     [readable |-> TRUE, title |-> "Welcome",
      content |-> "<html>" \o Repeat("served through CloudFlare. ", 20)
                    \o "</html>"]}

BlockedInit ==
    /\ InitState
    /\ env = NoEnv
    /\ call \in {[fn |-> "isPageBlocked", args |-> a, done |-> FALSE,
                  ret |-> Null] :
                a \in [response : Responses, page : LoadedPages]}

\* await isPageBlocked(response, page)
ApplyIsPageBlocked ==
    /\ call.fn = "isPageBlocked"
    /\ ~call.done
    /\ call' = [call EXCEPT !.done = TRUE,
                            !.ret = isPageBlocked(call.args.response,
                                                  call.args.page)]
    /\ UNCHANGED <<poolVars, engineVars, pc, op, gbVars, histVars, fetchVars>>

SpecBlocked == BlockedInit /\ [][ApplyIsPageBlocked]_vars
(* ------------------------------- claims -------------------------------- *)

\* C1: with concurrent acquire(null) calls interleaving at their awaits, the
\* pool never holds more than maxSize instances.  (SpecPool)
C1_ConcurrentPoolBounded == Len(browsers) <= MaxBrowsers

\* C2: with a full pool and a disconnected instance at the cursor, acquire(null)
\* closes that instance and puts the new instance into that same slot and no
\* other: the disconnected instance leaves the pool, every other slot keeps
\* its instance, the size is unchanged, the new instance is returned.
\* (SpecSeq)
C2_ReplacesSlotAtCursor ==
    [][(/\ pc[1] = "gb_replace"
        /\ pc'[1] = "gb_done"
        /\ gbRet'[1] # NoInst
        /\ Len(browsers) = MaxBrowsers)
       => /\ gbBrowser[1] \in closeCalled
          /\ gbBrowser[1] \notin ArrElems(browsers')
          /\ \E i \in 1..Len(browsers) :
                /\ browsers[i] = gbBrowser[1]
                /\ browsers' = [browsers EXCEPT ![i] = gbRet'[1]]]_vars

\* C3: in hybrid mode, when the navigation of the direct attempt completed
\* with no response or with a response of status 403, 429 or 503, browse goes
\* on with a proxy-bound attempt; and a proxy-bound retry that returns ok is
\* the final result, with the proxy's host:port as proxy_used.  (Spec)
C3_BlockedDirectRetries ==
    [][/\ (/\ pc[1] = "pr_settle"
           /\ leg[1] = "direct"
           /\ at[1].navigated
           /\ (at[1].response = Null \/ BlockingStatus(at[1].response.status)))
          => /\ pc'[1] \notin {"br_done", "idle"}
             /\ leg'[1] \in {"retry", "fallback"}
             /\ at'[1].proxyConfig = cfg[1]
       /\ (/\ pc[1] = "pr_settle"
           /\ leg[1] = "retry"
           /\ at[1].threw = Null
           /\ at[1].ret.status = "ok")
          => /\ pc'[1] = "br_done"
             /\ result'[1] = at[1].ret
             /\ result'[1].proxy_used = cfg[1].host \o ":" \o NumToString(cfg[1].port)
      ]_vars

\* C4: a browse makes at most two attempts and gets at most one proxy-bound
\* instance, whatever the engine answers.  (Spec)
C4_AtMostOneRetry ==
    /\ Len(attempts[1]) <= 2
    /\ Cardinality({i \in DOMAIN attempts[1] :
                        attempts[1][i].bound /\ attempts[1][i].launched}) <= 1

\* C5: in hybrid mode, when the direct attempt returns an error result whose
\* reason is timeout, connection_refused or dns_error, or whose lower-cased
\* message contains blocked, access denied, forbidden, rate limit or captcha,
\* one proxy-bound attempt follows, and what that attempt returns is the final
\* result, carrying the proxy's host:port.  (Spec)
C5_RetryResultIsFinal ==
    [][/\ (/\ pc[1] = "pr_settle"
           /\ leg[1] = "direct"
           /\ at[1].threw = Null
           /\ at[1].ret.status = "error"
           /\ \/ at[1].ret.reason \in {"timeout", "connection_refused", "dns_error"}
              \/ \E m \in {"blocked", "access denied", "forbidden", "rate limit",
                           "captcha"} :
                    Includes(ToLowerCase(at[1].ret.message), m))
          => /\ leg'[1] = "retry"
             /\ at'[1].proxyConfig = cfg[1]
             /\ attempts'[1] = <<[leg |-> "direct", bound |-> FALSE,
                                  launched |-> at[1].browser # NoInst]>>
       /\ (pc[1] = "pr_settle" /\ leg[1] = "retry")
          => /\ at[1].threw = Null
             /\ pc'[1] = "br_done"
             /\ result'[1] = at[1].ret
             /\ result'[1].proxy_used = cfg[1].host \o ":" \o NumToString(cfg[1].port)
             /\ Len(attempts'[1]) = 2
      ]_vars

\* C6: in hybrid mode, when the direct attempt returns an ok result, or an
\* error result whose reason is none of timeout, connection_refused, dns_error
\* and whose lower-cased message contains none of blocked, access denied,
\* forbidden, rate limit, captcha, browse returns exactly that result, with
\* proxy_used 'none', after that one attempt, which ran on an instance that is
\* not proxy-bound; no instance is launched on the way out.  (Spec)
C6_DirectResultReturned ==
    [][(/\ pc[1] = "pr_settle"
        /\ leg[1] = "direct"
        /\ at[1].threw = Null
        /\ \/ at[1].ret.status = "ok"
           \/ /\ at[1].ret.status = "error"
              /\ at[1].ret.reason \notin {"timeout", "connection_refused", "dns_error"}
              /\ \A m \in {"blocked", "access denied", "forbidden", "rate limit",
                           "captcha"} :
                    ~Includes(ToLowerCase(at[1].ret.message), m))
       => /\ pc'[1] = "br_done"
          /\ result'[1] = at[1].ret
          /\ result'[1].proxy_used = "none"
          /\ attempts'[1] = <<[leg |-> "direct", bound |-> FALSE,
                               launched |-> at[1].browser # NoInst]>>
          /\ at[1].browser \notin proxyBound
          /\ live' = live
          /\ proxyBound' = proxyBound
      ]_vars

\* A hybrid browse returned the ssl_error result of its direct attempt.
C6_Witness ==
    /\ pc[1] = "br_done"
    /\ cfg[1] # Null
    /\ cfg[1].type = "hybrid"
    /\ attempts[1] = <<[leg |-> "direct", bound |-> FALSE, launched |-> TRUE]>>
    /\ result[1] = at[1].ret
    /\ result[1].status = "error"
    /\ result[1].reason = "ssl_error"
    /\ result[1].proxy_used = "none"

\* C7: no result that browse returns is the error made from the 'Page appears
\* to be blocked' condition.  (Spec)
C7_BlockedNeverSurfaced ==
    (pc[1] = "br_done") => result[1].message # "Page appears to be blocked"

\* C8: with the calls made one after another, and instances disconnecting
\* between calls, the pool holds at most maxSize instances after every call.
\* (SpecSeq)
C8_SequentialPoolBounded ==
    \A p \in Procs :
        pc[p] \in {"idle", "gb_done"} => Len(browsers) <= MaxBrowsers

\* C8 witness: a call on a full pool has just replaced a disconnected
\* instance and returned the new one.
C8_Witness ==
    /\ pc[1] = "gb_done"
    /\ Len(browsers) = MaxBrowsers
    /\ gbBrowser[1] # NoInst
    /\ gbRet[1] \notin {NoInst, gbBrowser[1]}

\* C9: from an empty pool and with no disconnects, the n-th acquire(null)
\* (n from 0) returns the instance in slot n mod maxSize, the slots hold
\* distinct instances, and each round-robin call advances the cursor by one
\* modulo maxSize.  rrCalls counts the calls including the one that has
\* just returned.  (SpecSeq)
C9_RoundRobinOrder ==
    (pc[1] = "gb_done" /\ op[1] = "acquire" /\ gbProxy[1] = Null /\ rrClean)
    => /\ gbRet[1] # NoInst
       /\ gbRet[1] = ArrGet(browsers, (rrCalls - 1) % MaxBrowsers)
       /\ \A i, j \in 1..Len(browsers) : browsers[i] = browsers[j] => i = j
       /\ currentIndex =
            IF rrCalls > MaxBrowsers THEN (rrCalls - MaxBrowsers) % MaxBrowsers
            ELSE 0

\* C9 witness: the call after the pool filled up returns slot 0 again, and
\* a later one has wrapped around a second time.
C9_Witness ==
    /\ pc[1] = "gb_done" /\ op[1] = "acquire" /\ gbProxy[1] = Null /\ rrClean
    /\ rrCalls = 2 * MaxBrowsers + 1
    /\ gbRet[1] = browsers[1]

\* C10: between calls of acquire(null), acquire(proxyConfig) and closeAll,
\* len(pool) <= maxSize and the cursor is a valid index into the pool, or 0
\* when the pool is empty.  (SpecSeq)
C10_CursorValid ==
    AllIdle =>
        /\ Len(browsers) <= MaxBrowsers
        /\ IF Len(browsers) = 0 THEN currentIndex = 0
           ELSE currentIndex \in 0..(Len(browsers) - 1)


\* C11 as stated: when an attempt returns, the page it opened is closed and
\* the proxy-bound instance it acquired is closed (disconnected), on every
\* exit path; a browse that completed leaves no page open.  (Spec)
C11_PageAndProxyBrowserClosed ==
    (pc[1] \in {"pr_settle", "br_done"} /\ leg[1] # "none")
    => /\ at[1].page \in {"none", "closed"}
       /\ (at[1].proxyConfig # Null /\ at[1].browser # NoInst)
            => at[1].browser \notin connected

\* C11 amended: when an attempt returns, close has been called on the page it
\* opened and on the proxy-bound instance it acquired, on every exit path
\* (also when opening the page failed); between requests every proxy-bound
\* instance that still exists has had close called on it.  (Spec)
C11_CloseCalledOnEveryExit ==
    /\ (pc[1] \in {"pr_settle", "br_done"} /\ leg[1] # "none")
       => /\ at[1].page # "open"
          /\ (at[1].proxyConfig # Null /\ at[1].browser # NoInst)
               => at[1].browser \in closeCalled
    /\ AllIdle => proxyBound \cap live \subseteq closeCalled

\* A proxy-bound attempt whose newPage failed returns: its instance was closed.
C11_Witness ==
    /\ pc[1] = "pr_settle"
    /\ at[1].proxyConfig # Null
    /\ at[1].browser # NoInst
    /\ at[1].page = "none"
    /\ at[1].ret # Null
    /\ at[1].browser \in closeCalled


\* C12: getBrowser(proxyConfig) with a proxy config leaves the pool's list and
\* cursor unchanged at every fill level, and the instance it returns is fresh,
\* connected, bound to the proxy and not in the pool; no proxy-bound instance
\* is ever a member of the pool.  (SpecSeq)
C12_ProxyAcquireIsolated ==
    [][/\ (pc[1] = "idle" /\ op'[1] = "acquire" /\ gbProxy'[1] # Null)
          => /\ UNCHANGED <<browsers, currentIndex>>
             /\ pc'[1] = "gb_proxy"
       /\ (pc[1] = "gb_proxy")
          => /\ UNCHANGED <<browsers, currentIndex>>
             /\ pc'[1] = "gb_done"
             /\ gbRet'[1] # NoInst
                  => /\ gbRet'[1] \notin live
                     /\ gbRet'[1] \in proxyBound' \cap connected'
                     /\ gbRet'[1] \notin ArrElems(browsers')
       /\ ArrElems(browsers') \cap proxyBound' = {}
      ]_vars

\* getBrowser(proxyConfig) returned a proxy-bound instance while the pool was full.
C12_Witness ==
    /\ pc[1] = "gb_done"
    /\ gbProxy[1] # Null
    /\ gbRet[1] \in proxyBound
    /\ Len(browsers) = MaxBrowsers
    /\ gbRet[1] \notin ArrElems(browsers)


\* C13: whatever request is made and whatever engine call fails, browse
\* completes with a result whose status is ok or error (it never rejects), and
\* every error result carries exec, reason and message.  (Spec)
C13_NeverThrows ==
    (pc[1] = "br_done")
    => /\ result[1].status \in {"ok", "error"}
       /\ result[1].exec # Undef
       /\ result[1].status = "error"
            => /\ result[1].reason # Undef
               /\ result[1].message # Undef

\* An attempt threw (getErrorReason failed inside its catch block) and the
\* outer catch block of browse made an error result of it.
C13_Witness ==
    /\ pc[1] = "br_done"
    /\ at[1].threw # Null
    /\ result[1].status = "error"
    /\ result[1].reason = "unknown_error"
    /\ result[1].message = ToLowerCaseTypeError.message


\* C14: when browse is called with a valid url and a proxy that is enabled
\* while neither the request nor the environment gives both host and port
\* (type static or hybrid), it returns at once an error result with a
\* proxy-specific reason: no attempt is made, no instance is acquired or
\* launched, and the pool and its cursor are unchanged.  (Spec)
C14_ResolverFailureNoNavigation ==
    [][(/\ pc[1] = "idle"
        /\ op'[1] = "browse"
        /\ urlParses[req'[1].url]
        /\ req'[1].proxy.enabled = "true"
        /\ ~(Truthy(req'[1].proxy.host) /\ TruthyNum(req'[1].proxy.port))
        /\ ~(Truthy(env.PROXY_HOST) /\ Truthy(env.PROXY_PORT)))
       => /\ pc'[1] = "br_done"
          /\ result'[1].status = "error"
          /\ result'[1].reason \in {"proxy_error", "proxy_authentication_failed",
                                    "proxy_timeout", "proxy_connection_failed"}
          /\ attempts'[1] = <<>>
          /\ at'[1] = NoAttempt
          /\ UNCHANGED <<browsers, currentIndex, live, connected, closeCalled,
                         proxyBound, gbRet>>
      ]_vars

\* A static or hybrid request whose proxy could not be resolved returned
\* the proxy error while the pool already held an instance.
C14_Witness ==
    /\ pc[1] = "br_done"
    /\ req[1].proxy \in {ProxyFromEnv, ProxyHybridHostOnly}
    /\ env = NoEnv
    /\ result[1].reason = "proxy_error"
    /\ attempts[1] = <<>>
    /\ Len(browsers) > 0


\* C15: the cleanup of an attempt never changes what the attempt returns or
\* throws, whether its closes succeed or fail, and the close of a proxy-bound
\* instance is attempted after the page's close, also when that close failed.
\* (Spec)
C15_CleanupKeepsResult ==
    [][/\ (pc[1] \in {"pr_closePage", "pr_closeBrowser"})
          => /\ at'[1].ret = at[1].ret
             /\ at'[1].threw = at[1].threw
             /\ pc'[1] \in {"pr_closeBrowser", "pr_settle"}
       /\ (pc[1] = "pr_closePage" /\ at[1].proxyConfig # Null /\ at[1].browser # NoInst)
          => pc'[1] = "pr_closeBrowser"
       /\ (pc[1] = "pr_closeBrowser")
          => /\ at[1].browser \in closeCalled'
             /\ pc'[1] = "pr_settle"
       /\ (pc[1] = "pr_settle" /\ at[1].threw = Null /\ pc'[1] = "br_done")
          => result'[1] = at[1].ret
      ]_vars

\* An ok attempt on a proxy-bound instance returns after both closes failed.
C15_Witness ==
    /\ pc[1] = "pr_settle"
    /\ at[1].page = "close_failed"
    /\ at[1].proxyConfig # Null
    /\ at[1].browser \in closeCalled \cap connected
    /\ at[1].ret # Null
    /\ at[1].ret.status = "ok"


OnBlockList(p, i) ==
    \E blockedUrl \in req[p].network.block_urls :
        Includes(at[p].requests[i].request.url, blockedUrl)

\* C17: with network.enabled = false and a non-empty block_urls, every
\* request the page issues whose URL contains a block_urls entry is aborted.
C17_BlockListAppliesWithoutMonitoring ==
    ~req[1].network.enabled
        => \A i \in DOMAIN at[1].requests :
               OnBlockList(1, i) => at[1].requests[i].aborted = 1

\* C19: while monitoring is enabled, each request of the page is aborted or
\* continued exactly once, aborted exactly when shouldBlockRequest blocks it,
\* and one event carrying that decision is pushed behind the earlier ones
\* (an image under allow_types [document, script] is recorded as blocked,
\* not_in_allow_list); the events count the requests of this attempt's page,
\* and the ok result's network list is the attempt's list of events.
C19_InterceptedResolvedOnceAndRecorded ==
    [][/\ (pc[1] = "pr_goto" /\ req[1].network.enabled)
            => Len(at[1].networkRequests) = Len(at[1].requests)
       /\ (/\ pc[1] = "pr_goto"
           /\ req[1].network.enabled
           /\ Len(at'[1].requests) = Len(at[1].requests) + 1)
            => LET q == at'[1].requests[Len(at'[1].requests)]
                   decision == shouldBlockRequest(q.request,
                                                  req[1].network.allow_types,
                                                  req[1].network.block_urls)
                   event == at'[1].networkRequests[Len(at'[1].networkRequests)]
               IN /\ q.aborted + q.continued = 1
                  /\ (q.aborted = 1) <=> decision.block
                  /\ Len(at'[1].networkRequests) = Len(at[1].networkRequests) + 1
                  /\ SubSeq(at'[1].networkRequests, 1, Len(at[1].networkRequests))
                        = at[1].networkRequests
                  /\ event = [type |-> q.request.resourceType,
                              url |-> q.request.url,
                              blocked |-> decision.block,
                              reason |-> decision.reason]
                  /\ (/\ q.request.resourceType = "image"
                      /\ req[1].network.allow_types = {"document", "script"}
                      /\ req[1].network.block_urls = {})
                        => /\ event.blocked
                           /\ event.reason = "not_in_allow_list"
       /\ (pc[1] = "pr_collect" /\ at'[1].ret # Null /\ at'[1].ret.status = "ok")
            => /\ at'[1].ret.network = at[1].networkRequests
               /\ Len(at'[1].ret.network) <= MaxRequests]_vars

\* A browse monitoring under allow_types [document, script] returns an ok
\* result whose network list holds the document, continued, and then the
\* image, blocked as not_in_allow_list.
C19_Witness ==
    /\ pc[1] = "br_done"
    /\ req[1].network = Network(TRUE, {"document", "script"}, {})
    /\ result[1].status = "ok"
    /\ result[1].network =
         <<[type |-> "document", url |-> "https://x/", blocked |-> FALSE,
            reason |-> "document_allowed"],
           [type |-> "image", url |-> "https://x/ads/i.png", blocked |-> TRUE,
            reason |-> "not_in_allow_list"]>>


\* C20: every result browse returns carries proxy_used: host:port of the
\* proxy of the attempt that produced it, 'none' when no proxy-bound attempt
\* produced it.
C20_ResultCarriesProxyUsed ==
    pc[1] = "br_done" => result[1].proxy_used = ProxyUsed(at[1].proxyConfig)


\* the url parameter as the schema of the /parse endpoint wants it: an
\* absolute URL with scheme http or https
HttpUrl(url) ==
    /\ UrlParses(url)
    /\ ToLowerCase(SubSeq(url, 1, SchemeLength(url))) \in {"http", "https"}

httpUrls == [url \in {r.url : r \in UrlRequests} |-> HttpUrl(url)]

\* C21: a browse whose url is not an absolute http or https URL ends at
\* once in an error result with reason invalid_url: no proxy is resolved, no
\* instance acquired, no page opened.
C21_OnlyHttpUrlsAccepted ==
    (pc[1] # "idle" /\ ~httpUrls[req[1].url])
        => /\ pc[1] = "br_done"
           /\ result[1].status = "error"
           /\ result[1].reason = "invalid_url"
           /\ cfg[1] = Null
           /\ at[1] = NoAttempt


\* getProxyConfig has returned from a call on the request's proxy rp
Resolved == call.fn = "getProxyConfig" /\ call.done

\* the proxy parameter gives host and port
RequestComplete(rp) == rp.host # Undef /\ rp.port # UndefNum

\* C22: a proxy parameter with enabled false resolves to null without an
\* error, whatever else it and the environment hold.
C22_DisabledResolvesToNull ==
    (Resolved /\ call.args.requestProxy.enabled = "false")
        => call.ret = [threw |-> Null, value |-> Null]

\* Disabled, although the request names a proxy and the environment another.
C22_Witness ==
    /\ Resolved
    /\ call.args.requestProxy =
         RequestProxy("false", "static", "h", Num(1), "user", "secret")
    /\ call.args.env.PROXY_HOST = "envhost"
    /\ call.args.env.PROXY_PORT = "3128"
    /\ call.ret.value = Null

\* C23: enabled true with host and port: the config is the request's host,
\* port, username and password, with the request's type or hybrid, whatever
\* the environment holds.
C23_RequestConfigFromRequestAlone ==
    (/\ Resolved
     /\ call.args.requestProxy.enabled = "true"
     /\ RequestComplete(call.args.requestProxy))
        => LET rp == call.args.requestProxy IN
           /\ call.ret.threw = Null
           /\ call.ret.value =
                [enabled |-> TRUE,
                 type |-> IF rp.type = Undef THEN "hybrid" ELSE rp.type,
                 host |-> rp.host, port |-> rp.port,
                 username |-> rp.username, password |-> rp.password]

\* resolve({enabled: true, host: 'h', port: 1}) under an environment that
\* defines a whole proxy with credentials.
C23_Witness ==
    /\ Resolved
    /\ call.args.requestProxy =
         RequestProxy("true", Undef, "h", Num(1), Undef, Undef)
    /\ call.args.env = [PROXY_HOST |-> "envhost", PROXY_PORT |-> "3128",
                        PROXY_USERNAME |-> "envuser",
                        PROXY_PASSWORD |-> "envpass"]
    /\ call.ret.value.host = "h"
    /\ call.ret.value.port = Num(1)
    /\ call.ret.value.type = "hybrid"
    /\ call.ret.value.username = Undef

\* the config of the environment with the request's type, username and
\* password taking precedence field by field
EnvConfigFor(rp, e) ==
    /\ call.ret.threw = Null
    /\ call.ret.value # Null
    /\ call.ret.value.host = e.PROXY_HOST
    /\ NumToString(call.ret.value.port) = e.PROXY_PORT
    /\ call.ret.value.type = (IF rp.type = Undef THEN "hybrid" ELSE rp.type)
    /\ call.ret.value.username =
         (IF rp.username = Undef THEN e.PROXY_USERNAME ELSE rp.username)
    /\ call.ret.value.password =
         (IF rp.password = Undef THEN e.PROXY_PASSWORD ELSE rp.password)

\* the request is not disabled and does not give both host and port, and the
\* environment defines PROXY_HOST and PROXY_PORT
FallsToEnvironment ==
    /\ Resolved
    /\ call.args.requestProxy.enabled # "false"
    /\ ~RequestComplete(call.args.requestProxy)
    /\ call.args.env.PROXY_HOST # Undef
    /\ call.args.env.PROXY_PORT # Undef

\* PROXY_PORT is the decimal text of a port
IsPortText(s) ==
    /\ s # Undef
    /\ Len(s) > 0
    /\ \A i \in 1..Len(s) : IsDigit(SubSeq(s, i, i))
    /\ \E i \in 1..Len(s) : SubSeq(s, i, i) # "0"

\* C24 as stated: whenever the request falls to an environment that defines
\* PROXY_HOST and PROXY_PORT, the environment's config is returned.
C24_EnvConfigWheneverDefined ==
    FallsToEnvironment
        => EnvConfigFor(call.args.requestProxy, call.args.env)

\* C24: when the request falls to an environment that defines PROXY_HOST and
\* PROXY_PORT and PROXY_PORT is the text of a port, the environment's host
\* and port are returned with type, username and password each the request's
\* when given and else the environment's (type: hybrid); when PROXY_PORT is
\* no number the call fails with 'Proxy host and port are required'.
C24_EnvConfigFieldwise ==
    FallsToEnvironment
        => IF IsPortText(call.args.env.PROXY_PORT)
           THEN EnvConfigFor(call.args.requestProxy, call.args.env)
           ELSE call.ret = [threw |-> HostPortRequiredError, value |-> Null]

\* resolve({enabled: true, type: 'static'}) with only host and port in the
\* environment.
C24_Witness ==
    /\ Resolved
    /\ call.args.requestProxy =
         RequestProxy("true", "static", Undef, UndefNum, Undef, Undef)
    /\ call.args.env = [PROXY_HOST |-> "envhost", PROXY_PORT |-> "3128",
                        PROXY_USERNAME |-> Undef, PROXY_PASSWORD |-> Undef]
    /\ call.ret.threw = Null
    /\ call.ret.value.type = "static"
    /\ call.ret.value.port = Num(3128)
    /\ call.ret.value.username = Undef
    /\ call.ret.value.password = Undef

\* C25: enabled true, the request without host or without port, the
\* environment without PROXY_HOST or without PROXY_PORT: the call fails and
\* returns no config.
C25_IncompleteProxyFails ==
    (/\ Resolved
     /\ call.args.requestProxy.enabled = "true"
     /\ ~RequestComplete(call.args.requestProxy)
     /\ (call.args.env.PROXY_HOST = Undef \/ call.args.env.PROXY_PORT = Undef))
        => /\ call.ret.threw = MissingProxyError
           /\ call.ret.value = Null

\* The request gives only a host and the environment only a port.
C25_Witness ==
    /\ Resolved
    /\ call.args.requestProxy =
         RequestProxy("true", "hybrid", "h", UndefNum, "user", "secret")
    /\ call.args.env.PROXY_HOST = Undef
    /\ call.args.env.PROXY_PORT = "3128"
    /\ call.ret.threw = MissingProxyError


\* text t occurs in s when letter case is ignored
OccursIgnoringCase(s, t) ==
    \E i \in 1..(Len(s) - Len(t) + 1) :
        ToLowerCase(SubSeq(s, i, i + Len(t) - 1)) = t

\* C26: isPageBlocked is true without a response, on status 403, 429 or
\* 503, when the title or the HTML contains one of the nine indicators in
\* any letter case, when the HTML has fewer than 500 characters and neither
\* a doctype nor an html tag, and when the title or the content cannot be
\* read; it is false in every other case.
C26_BlockedExactlyWhen ==
    (call.fn = "isPageBlocked" /\ call.done)
        => LET response == call.args.response
               page == call.args.page
               indicators ==
                   {"blocked", "access denied", "forbidden", "rate limit",
                    "captcha", "cloudflare", "ddos protection",
                    "security check", "bot detection"}
           IN call.ret =
                (\/ response = Null
                 \/ response.status \in {403, 429, 503}
                 \/ ~page.readable
                 \/ \E t \in indicators : \/ OccursIgnoringCase(page.title, t)
                                          \/ OccursIgnoringCase(page.content, t)
                 \/ /\ Len(page.content) < 500
                    /\ ~OccursIgnoringCase(page.content, "<!doctype")
                    /\ ~OccursIgnoringCase(page.content, "<html"))

\* A 429 response in front of an ordinary page counts as blocked, a 404 in
\* front of the same page would not.
C26_Witness ==
    /\ call.fn = "isPageBlocked"
    /\ call.done
    /\ call.args.response = [status |-> 429]
    /\ call.args.page = NormalPage
    /\ call.ret = TRUE


\* C27: closeAll calls close on every instance of the pool, also when some
\* of the closes fail, and on no proxy-bound instance; it returns without an
\* error and leaves the pool empty.
C27_CloseAllSweepsPool ==
    [][/\ (pc[1] = "idle" /\ pc'[1] = "ca_wait")
            => /\ closeCalled' = closeCalled \cup ArrElems(browsers)
               /\ closeCalled' \cap proxyBound = closeCalled \cap proxyBound
               /\ (connected \ connected') \cap proxyBound = {}
       /\ pc[1] = "ca_wait"
            => /\ pc'[1] = "idle"
               /\ browsers' = <<>>
               /\ gbErr'[1] = Null
               /\ closeCalled' \cap proxyBound = closeCalled \cap proxyBound]_vars

\* closeAll is waiting on a full pool: close was called on all three
\* instances, one close failed and left its instance connected, and a
\* proxy-bound instance is untouched.
C27_Witness ==
    /\ pc[1] = "ca_wait"
    /\ Len(browsers) = MaxBrowsers
    /\ ArrElems(browsers) \subseteq closeCalled
    /\ ArrElems(browsers) \cap connected # {}
    /\ ArrElems(browsers) \ connected # {}
    /\ (proxyBound \cap connected) \ closeCalled # {}


\* C28: once closeAll has emptied the pool and no call is in flight, close
\* was called on every instance created for the pool that is still
\* connected.
C28_ShutdownLeavesNoOpenInstance ==
    (AllIdle /\ browsers = <<>>)
        => \A b \in (live \ proxyBound) \cap connected : b \in closeCalled


\* C29: with a full pool, the instance an acquire(null) call is handed is
\* not in the slot the cursor points to afterwards, so the next call is
\* handed another slot.
C29_NextCallGetsAnotherSlot ==
    (/\ pc[1] = "gb_done"
     /\ op[1] = "acquire"
     /\ gbProxy[1] = Null
     /\ gbRet[1] # NoInst
     /\ Len(browsers) = MaxBrowsers)
        => ArrGet(browsers, currentIndex) # gbRet[1]


\* C30: isPageBlocked is evaluated only in a browse whose proxy config is
\* hybrid and only after page.goto has returned; a browse in static mode or
\* without a proxy never evaluates it, never reports a blocked page, and
\* returns the ok result when the engine calls after the navigation succeed,
\* whatever the response was.
C30_BlockCheckHybridOnly ==
    [][/\ at'[1].blockChecked
            => /\ cfg'[1] # Null
               /\ cfg'[1].type = "hybrid"
               /\ at'[1].navigated
       /\ leg'[1] \in {"static", "plain"}
            => /\ pc'[1] # "pr_blockCheck"
               /\ ~at'[1].blockChecked
               /\ at'[1].ret # Null => at'[1].ret.message # BlockedError.message
       /\ (/\ leg[1] \in {"static", "plain"}
           /\ pc[1] = "pr_collect"
           /\ at'[1].ret # Null
           /\ at'[1].ret.status = "error")
            => \E e \in EngineErrors : at'[1].ret.message = OrElse(e.message, "Unknown error")]_vars

\* A browse through a static proxy returns ok on a 403 response.
C30_Witness ==
    /\ pc[1] = "br_done"
    /\ leg[1] = "static"
    /\ at[1].response = [status |-> 403]
    /\ ~at[1].blockChecked
    /\ result[1].status = "ok"
    /\ result[1].proxy_used = "h:8080"


\* the direct attempt of a hybrid browse threw and the proxy-bound attempt
\* of the catch block at line 66 has settled
FallbackSettles ==
    /\ pc[1] = "pr_settle"
    /\ leg[1] = "fallback"
    /\ Len(attempts[1]) = 1
    /\ attempts[1][1].leg = "direct"

ReasonOf(message) ==
    LET has(t) == \E i \in 1..(Len(message) - Len(t) + 1) :
                      ToLowerCase(SubSeq(message, i, i + Len(t) - 1)) = t
    IN IF has("timeout") THEN "timeout"
       ELSE IF has("net::err_name_not_resolved") THEN "dns_error"
       ELSE IF has("net::err_connection_refused") THEN "connection_refused"
       ELSE IF has("net::err_ssl_version_or_cipher_mismatch") THEN "ssl_error"
       ELSE IF has("invalid url") THEN "invalid_url"
       ELSE "unknown_error"

\* C32: every failure inside an attempt ends in an error result of the
\* attempt (the attempt does not throw), whose reason is the one the
\* taxonomy gives the error's message: timeout, dns_error,
\* connection_refused, ssl_error, invalid_url, else unknown_error.
C32_EveryFailureClassified ==
    /\ at[1].threw = Null
    /\ (at[1].ret # Null /\ at[1].ret.status = "error")
         => at[1].ret.reason = ReasonOf(at[1].ret.message)


\* C33: every config getProxyConfig returns has a non-empty host and a port
\* in 1..65535.
C33_ConfigHasHostAndValidPort ==
    (call.fn = "getProxyConfig" /\ call.done /\ call.ret.value # Null)
        => /\ call.ret.value.host # Undef
           /\ Len(call.ret.value.host) > 0
           /\ call.ret.value.port.t = "num"
           /\ call.ret.value.port.v \in 1..65535


\* C34: an attempt authenticates its page only when it is proxy-bound and
\* the config has a username and a password, and only before page.goto; an
\* attempt that reaches page.goto has authenticated exactly in that case; an
\* attempt without a proxy, the first of a hybrid browse included, never
\* authenticates.
C34_AuthenticatesBoundAttemptsFirst ==
    [][LET a == at'[1]
           credentials == /\ a.proxyConfig # Null
                          /\ a.proxyConfig.username # Undef
                          /\ a.proxyConfig.password # Undef
       IN /\ a.authed => credentials
          /\ (a.authed /\ ~at[1].authed)
                => /\ pc[1] = "pr_auth"
                   /\ ~at[1].navigated
                   /\ ~a.navigated
          /\ (pc'[1] = "pr_goto" \/ a.navigated) => (a.authed <=> credentials)
          /\ leg'[1] \in {"direct", "plain"}
                => /\ a.proxyConfig = Null
                   /\ ~a.authed
                   /\ pc'[1] # "pr_auth"]_vars

\* The proxy-bound retry of a hybrid browse authenticated and then navigated;
\* the direct attempt before it had no proxy.
C34_Witness ==
    /\ pc[1] = "br_done"
    /\ Len(attempts[1]) = 2
    /\ attempts[1][1] = [leg |-> "direct", bound |-> FALSE, launched |-> TRUE]
    /\ leg[1] = "retry"
    /\ at[1].proxyConfig.username = "user"
    /\ at[1].authed
    /\ at[1].navigated


\* the place of each step in the order acquire instance, open page, set the
\* page up, navigate, block check, screenshot, collect, close page, close a
\* proxy-bound instance, settle
StepRank ==
    [gb_push |-> 0, gb_proxy |-> 0, gb_done |-> 1, pr_newPage |-> 2,
     pr_auth |-> 3, pr_viewport |-> 4, pr_userAgent |-> 5, pr_intercept |-> 6,
     pr_goto |-> 7, pr_blockCheck |-> 8, pr_screenshot |-> 9,
     pr_collect |-> 10, pr_closePage |-> 11, pr_closeBrowser |-> 12,
     pr_settle |-> 13]

\* C35: with network.enabled, interception is on before page.goto is called
\* and every request the page issues during the navigation is resolved by
\* the handler; an attempt never steps back in the order acquire instance,
\* open page, navigate, block check, screenshot, collect, close page: the
\* navigation needs the open page on an acquired instance, block check,
\* screenshot and collection need the navigation to have returned, the
\* result needs the requested screenshot, and the page is closed once the
\* outcome of the attempt is there.
C35_InterceptBeforeNavigationAndStepOrder ==
    [][LET a == at'[1] IN
       /\ (req'[1].network.enabled /\ pc'[1] = "pr_goto")
            => /\ a.intercept
               /\ \A i \in DOMAIN a.requests :
                     a.requests[i].aborted + a.requests[i].continued = 1
       /\ (/\ pc[1] \in DOMAIN StepRank
           /\ pc'[1] \in DOMAIN StepRank
           /\ pc'[1] # pc[1]
           /\ attempts'[1] = attempts[1])
            => StepRank[pc'[1]] > StepRank[pc[1]]
       /\ pc'[1] = "pr_goto"
            => a.browser # NoInst /\ a.page = "open" /\ ~a.navigated
       /\ pc'[1] \in {"pr_blockCheck", "pr_screenshot", "pr_collect"}
            => a.navigated /\ a.page = "open" /\ a.ret = Null
       /\ (a.ret # Null /\ a.ret.status = "ok")
            => /\ a.navigated
               /\ req'[1].screenshot => a.shot
               /\ ChecksBlocking(a.proxyConfig) => a.blockChecked
       /\ a.shot => a.navigated
       /\ pc'[1] = "pr_closePage"
            => a.page = "open" /\ (a.ret # Null \/ a.threw # Null)
       /\ a.page \in {"closed", "close_failed"}
            => (a.ret # Null \/ a.threw # Null)]_vars

\* A monitored browse with a screenshot went through every step: two
\* requests of the navigation passed the handler, one aborted and one
\* continued, and the page was closed after the ok result was built.
C35_Witness ==
    /\ pc[1] = "br_done"
    /\ req[1].network.enabled
    /\ req[1].screenshot
    /\ at[1].intercept
    /\ at[1].navigated
    /\ at[1].shot
    /\ at[1].page = "closed"
    /\ result[1].status = "ok"
    /\ Len(result[1].network) = MaxRequests
    /\ \E i, j \in DOMAIN result[1].network :
          result[1].network[i].blocked /\ ~result[1].network[j].blocked


\* C36: close was called on every instance that was created for the pool
\* and is not in the pool any more.
C36_LeftPoolOnlyClosed ==
    \A b \in live \ proxyBound : b \in ArrElems(browsers) \/ b \in closeCalled


EngineStep ==
    \/ GetBrowserProxy(1)
    \/ GetBrowserPush(1)
    \/ PRGotBrowser(1)
    \/ PRNewPage(1)
    \/ PRAuthenticate(1)
    \/ PRSetViewport(1)
    \/ PRSetUserAgent(1)
    \/ PRSetInterception(1)
    \/ PRGoto(1)
    \/ PRBlockCheck(1)
    \/ PRScreenshot(1)
    \/ PRCollect(1)
    \/ PRClosePage(1)
    \/ PRCloseBrowser(1)
    \/ BrowseAfterAttempt(1)

\* One browse at a time, without a proxy, through a static and through a
\* hybrid proxy, and with a url that does not parse.
FairNext ==
    \/ \E r \in {q \in Requests : \/ q.proxy \in {ProxyStatic, ProxyHybrid}
                                  \/ q.screenshot /\ q.network = NetworkOn} :
          BrowseStart(1, r)
    \/ EngineStep
    \/ BrowseReturn(1)

\* Every awaited promise settles in the end; when browse is called, and when
\* its caller takes the result, is left open.
FairSpec == NetInit /\ [][FairNext]_vars /\ WF_vars(EngineStep)

\* an attempt of performRequest is under way, before its return
AttemptRunning ==
    pc[1] \in {"gb_proxy", "gb_push", "gb_done", "pr_newPage", "pr_auth",
               "pr_viewport", "pr_userAgent", "pr_intercept", "pr_goto",
               "pr_blockCheck", "pr_screenshot", "pr_collect", "pr_closePage",
               "pr_closeBrowser"}

\* C38: when every awaited operation settles, a browse that was called
\* returns a result of status ok or error, after at most three attempts, and
\* every attempt that started gets through its finally block: it settles
\* with its page, if one was opened, no longer open.
C38_EveryFetchCompletes ==
    /\ (op[1] = "browse" /\ pc[1] # "br_done") ~> (pc[1] = "br_done")
    /\ [](pc[1] = "br_done" => result[1].status \in {"ok", "error"})
    /\ [](Len(attempts[1]) <= 3)
    /\ AttemptRunning ~> (pc[1] = "pr_settle")
    /\ [](pc[1] = "pr_settle" => at[1].page # "open")

\* a hybrid browse returned after three attempts, the last one a fallback
\* whose page was opened and closed
C38_Witness ==
    /\ pc[1] = "br_done"
    /\ result[1].status \in {"ok", "error"}
    /\ Len(attempts[1]) = 3
    /\ attempts[1][3].leg = "fallback"
    /\ at[1].page = "closed"

====
